---- MODULE Spec2Model ----
(***************************************************************************)
(* Model of the multi-DEX flash-loan arbitrage bot.                        *)
(*                                                                         *)
(*  - the atomic execution unit, contracts/MultiDexArbitrageBot.sol:       *)
(*    one action per external function; a transaction is one atomic step   *)
(*    (the ledger commits it whole or reverts it whole), computed by the   *)
(*    operators below from the function bodies;                            *)
(*  - the off-chain orchestrator, arbitrage-manager.js: one action per     *)
(*    stretch of code between two awaits of a scan cycle.                  *)
(*                                                                         *)
(* The lender (Aave V3 pool) and the venues (Uniswap-V2 style routers) are *)
(* external contracts: the lender follows flashLoanSimple's protocol, the  *)
(* venues' behaviour is chosen anew for every transaction.                 *)
(***************************************************************************)
EXTENDS Integers, Sequences, FiniteSets, TLC

(***************************************************************************)
(* Bounds of the model.                                                    *)
(***************************************************************************)
MaxDex == 2            \* venues the owner registers
MaxTx == 1             \* execution transactions per behaviour
MaxStray == 10000      \* tokens sent to the unit from outside, per token

(***************************************************************************)
(* Addresses, tokens, amounts.                                             *)
(***************************************************************************)
Tokens == {"WETH", "TKB", "TKC"}
WETH == "WETH"
Owner == "owner"
Unit == "unit"
Pool == "pool"
Callers == {Owner, "other"}

LoanAmount == 10000          \* amountIn / msg.value of the modelled calls
TwoMinutes == 120
FiveMinutes == 300
SlippageBps == 50
PremiumBps == 9              \* the lender's premium, 0.09 % of the loan
SimPremiumBps == 9

\* route ages (block.timestamp - route.timestamp) tried by the calls; -1 is a
\* timestamp one second in the future
RouteAges == {-1, 0, 120, 300, 301, 400}
GasPrices == {30, 200}       \* tx.gasprice, gwei
ParamChoices ==
  { [mpp |-> 100, mgp |-> 100, mrr |-> 20],
    [mpp |-> 21000, mgp |-> 100, mrr |-> 20] }
PairInputs == { <<"WETH", "TKB">>, <<"TKB", "WETH">>, <<"WETH", "WETH">> }
TokenArgs == { <<"WETH", "TKB">>, <<"WETH", "WETH">> }

\* (path, dexIndices) of the routes tried; dexIndices are 0-based as in the source
RouteShapes ==
  { [path |-> <<"WETH", "TKB", "WETH">>, dexIndices |-> <<0, 1>>],
    [path |-> <<"WETH", "TKB">>, dexIndices |-> <<0>>],
    [path |-> <<"WETH">>, dexIndices |-> <<>>],
    [path |-> <<"TKC", "TKB", "WETH">>, dexIndices |-> <<0, 1>>] }

(***************************************************************************)
(* Venue behaviour during one transaction.  rate: quoted output per 100    *)
(* units of input (0: no pool, the quote reverts).  mode: what the swap    *)
(* delivers: the quote, 0.4 % less, 0.6 % less (a router that enforces     *)
(* amountOutMin reverts when that is under the floor), or "skim": the      *)
(* router returns the quoted amounts but the unit receives 10 % less (a    *)
(* fee-on-transfer token).  sameOk: whether the router accepts a path      *)
(* whose two tokens are identical.  reenter: the call into the unit that   *)
(* the venue's swap makes, or has the account `by` make, before it         *)
(* returns: by whom and through which entry (via the lender's              *)
(* flashLoanSimple with the unit as receiver, or a trigger directly).      *)
(***************************************************************************)
NoReentry == [by |-> "", via |-> ""]

NestedAttempts ==
  { [by |-> "venue", via |-> "executeArbitrage"],
    [by |-> "venue", via |-> "flashLoanSimple"],
    [by |-> "owner", via |-> "executeArbitrage"],
    [by |-> "owner", via |-> "flashLoanSimple"] }

VenueBehaviours ==
  { [rate |-> 110, mode |-> "exact", sameOk |-> FALSE, reenter |-> NoReentry],
    [rate |-> 100, mode |-> "exact", sameOk |-> TRUE, reenter |-> NoReentry],
    [rate |-> 110, mode |-> "slip04", sameOk |-> FALSE, reenter |-> NoReentry],
    [rate |-> 110, mode |-> "slip06", sameOk |-> FALSE, reenter |-> NoReentry],
    [rate |-> 110, mode |-> "skim", sameOk |-> FALSE, reenter |-> NoReentry],
    [rate |-> 0, mode |-> "exact", sameOk |-> FALSE, reenter |-> NoReentry] }
  \cup { [rate |-> 110, mode |-> "exact", sameOk |-> FALSE, reenter |-> n] :
           n \in NestedAttempts }

VARIABLES
  dexRouters,        \* sequence of [router, active]; source index i is i+1 here
  activePairs,       \* [Tokens \X Tokens -> BOOLEAN]
  minProfitPercent, maxGasPrice, minReserveRatio,
  paused,            \* _paused
  bal,               \* token balances of the unit
  blockTimestamp,
  nTx,               \* execution transactions so far
  lastTx             \* outcome and trace of the last transaction

unitVars == <<dexRouters, activePairs, minProfitPercent, maxGasPrice,
              minReserveRatio, paused, bal, blockTimestamp, nTx, lastTx>>
registryVars == <<dexRouters, activePairs, minProfitPercent, maxGasPrice,
                  minReserveRatio, paused>>

\* the orchestrator (arbitrage-manager.js)
VARIABLES
  clock,             \* Date.now(), milliseconds
  nTicks,            \* clock advances so far
  executionHistory,  \* sequence of [timestamp, txHash]
  watchedPairs,      \* per watched pair: [lastChecked, successCount]
  cycles,            \* the running invocations of checkArbitrageOpportunities
  attempts,          \* every transaction the orchestrator sent, in order:
                     \* [pair, scanAt, status, ended, channel], ended
                     \* being the number of executions of the hour before
                     \* it that had ended when it was sent, channel where
                     \* it was sent to
  isRunning,         \* startBot has scheduled the periodic tasks
  useFlashbots       \* CONFIG.useFlashbots of the running process

orchVars == <<clock, nTicks, executionHistory, watchedPairs, cycles, attempts,
              isRunning, useFlashbots>>

\* the risk and calibration module (profit-analyzer.js).  Two ProfitAnalyzer
\* objects built on the same config are kept side by side, so that what
\* they return can be compared.
VARIABLES
  config,            \* the config the analyzers were constructed with
  historicalData,    \* per analyzer: the errorRatio of its stored samples
  recorded,          \* per analyzer: the errorRatio of every sample it was
                     \* given to store, in order
  lastCall           \* per analyzer: the latest call of assessRisk or
                     \* recommendStrategy and what it returned

analyzerVars == <<config, historicalData, recorded, lastCall>>

\* one run of findBestArbitrageRoute for a watched pair (arbitrage-manager),
\* and what checkArbitrageOpportunities does with its result
VARIABLES
  searchConfig,      \* CONFIG.maxHops, and whether tokenList holds a token
                     \* besides tokenA and tokenB
  frame,             \* where the search stands: pc and the loop counters
  prices,            \* the dexIndex of every venue that quoted both ways
  routes,            \* the routes pushed so far
  triples,           \* every (i, j, k) the 3-hop loops ran their body on
  searchResult,      \* what findBestArbitrageRoute returned
  called             \* checkArbitrageOpportunities called executeArbitrage(result)

searchVars == <<searchConfig, frame, prices, routes, triples, searchResult, called>>

\* one call of FlashbotsManager.sendBundle (flashbots-manager.js) and the
\* relay's answers
VARIABLES
  bundleCall,        \* the call's arguments and where it stands
  bundleSubmissions, \* the target blocks submitted to the relay, in order
  waits,             \* the submitted blocks whose wait() is still pending
  resolutions        \* per block: how its wait() settled, once handled

relayVars == <<bundleCall, bundleSubmissions, waits, resolutions>>

\* one invocation of checkArbitrageOpportunities on one pair, followed
\* through executeArbitrage, and the requests it has sent
VARIABLES
  scan,              \* the invocation's locals and where it stands
  requests           \* every contract.executeArbitrage(...) sent, in order

submitVars == <<scan, requests>>

\* the process over its starts, faults and restarts
VARIABLES
  scanTasks,         \* the setInterval(checkArbitrageOpportunities) timers set
  pairsPushed,       \* the watchedPairs array: the pair of each entry, in order
  startsDue,         \* calls of startBot to come: the main one, restart timers
  faults             \* uncaught exceptions so far

lifeVars == <<scanTasks, pairsPushed, startsDue, faults>>

vars == <<unitVars, orchVars, analyzerVars, searchVars, relayVars,
          submitVars, lifeVars>>

\* granted, toOwner, held: when the lender's callback ends on its success
\* branch, the allowance it has given the lender, what it has transferred
\* to owner(), and the unit's balance of the asset
NoTrace ==
  [borrowed |-> FALSE, wrapped |-> FALSE, sim |-> "none", hops |-> <<>>,
   callbackRan |-> FALSE, granted |-> 0, toOwner |-> 0, held |-> 0]

NoTx ==
  [kind |-> "none", status |-> "none", reason |-> "", events |-> <<>>,
   emitted |-> <<>>, age |-> 0, pausedAtCall |-> FALSE, caller |-> "",
   tr |-> NoTrace, balBefore |-> [t \in Tokens |-> 0], ownerGot |-> 0,
   ethOut |-> 0, mpp |-> 0, tokenA |-> "", tokenB |-> "", gasprice |-> 0,
   route |-> [path |-> <<>>, dexIndices |-> <<>>], plainProfit |-> FALSE]

(***************************************************************************)
(* The venues: IUniswapV2Router02 as the unit calls it.  vb maps a venue   *)
(* (1-based position in dexRouters) to its behaviour in this transaction.  *)
(***************************************************************************)
Scenarios == [1..Len(dexRouters) -> VenueBehaviours]

\* router.getAmountsOut(amount, [tin, tout]): ok = FALSE when the call reverts
getAmountsOut(vb, d, tin, tout, amount) ==
  IF vb[d].rate = 0 \/ (tin = tout /\ ~vb[d].sameOk)
  THEN [ok |-> FALSE, out |-> 0]
  ELSE [ok |-> TRUE, out |-> (amount * vb[d].rate) \div 100]

\* what a swap quoted at `quoted` puts on the recipient's balance
Delivered(vb, d, quoted) ==
  CASE vb[d].mode = "exact" -> quoted
    [] vb[d].mode = "slip04" -> (quoted * 9960) \div 10000
    [] vb[d].mode = "slip06" -> (quoted * 9940) \div 10000
    [] vb[d].mode = "skim" -> (quoted * 9000) \div 10000

\* router.swapExactTokensForTokens(amount, minOut, [tin, tout], unit, deadline)
\* on the balances b of the unit; ok = FALSE when the call reverts
swapExactTokensForTokens(vb, d, tin, tout, amount, minOut, b) ==
  LET q == getAmountsOut(vb, d, tin, tout, amount)
      out == Delivered(vb, d, q.out)
      \* the router compares the amount it computed with amountOutMin
      nominal == IF vb[d].mode = "skim" THEN q.out ELSE out
  IN IF ~q.ok \/ b[tin] < amount \/ nominal < minOut
     THEN [ok |-> FALSE, bal |-> b, delivered |-> 0]
     ELSE [ok |-> TRUE,
           bal |-> [[b EXCEPT ![tin] = @ - amount] EXCEPT ![tout] = @ + out],
           delivered |-> out]

(***************************************************************************)
(* The unit.  m is the machine state of the running transaction:           *)
(*   bal      token balances of the unit                                   *)
(*   allow    allowance of the borrowed asset granted to the lender        *)
(*   ownerGot tokens transferred to owner()                                *)
(*   ethOut   native coin sent to msg.sender                               *)
(*   emitted  events emitted so far                                        *)
(*   tr       trace of the steps reached                                   *)
(*   locked   the ReentrancyGuard's status is _ENTERED                     *)
(* Operators that can revert return ok = FALSE and the reason.             *)
(***************************************************************************)
StartMachine ==
  [bal |-> bal, allow |-> 0, ownerGot |-> 0, ethOut |-> 0, emitted |-> <<>>,
   tr |-> NoTrace, locked |-> FALSE]

\* the nonReentrant modifier of the two triggers has taken the lock
Locked(m) == [m EXCEPT !.locked = TRUE]

Reverted(m, reason) == [ok |-> FALSE, reason |-> reason, m |-> m]
Returned(m) == [ok |-> TRUE, reason |-> "", m |-> m]

\* amountsOut[1] * (10000 - 50) / 10000
MinAmountOut(quoted) == (quoted * (10000 - SlippageBps)) \div 10000

\* amount * minProfitPercent / 100000
MinProfit(amount) == (amount * minProfitPercent) \div 100000

RECURSIVE findBestScan(_, _, _, _, _, _, _)
findBestScan(vb, fromToken, toToken, amount, i, bestOutput, bestDexIndex) ==
  IF i > Len(dexRouters)
  THEN [bestOutput |-> bestOutput, bestDexIndex |-> bestDexIndex]
  ELSE IF ~dexRouters[i].active
  THEN findBestScan(vb, fromToken, toToken, amount, i + 1, bestOutput, bestDexIndex)
  ELSE LET q == getAmountsOut(vb, i, fromToken, toToken, amount) IN
       IF q.ok /\ q.out > bestOutput
       THEN findBestScan(vb, fromToken, toToken, amount, i + 1, q.out, i - 1)
       ELSE findBestScan(vb, fromToken, toToken, amount, i + 1, bestOutput, bestDexIndex)

\* ok = FALSE: require(bestOutput > 0, "No valid DEX found") failed
findBestDexForSwap(vb, fromToken, toToken, amount) ==
  LET s == findBestScan(vb, fromToken, toToken, amount, 1, 0, 0)
  IN [ok |-> s.bestOutput > 0, bestDexIndex |-> s.bestDexIndex]

RECURSIVE getBestOutputScan(_, _, _, _, _, _)
getBestOutputScan(vb, fromToken, toToken, amount, i, bestOutput) ==
  IF i > Len(dexRouters) THEN bestOutput
  ELSE IF ~dexRouters[i].active
  THEN getBestOutputScan(vb, fromToken, toToken, amount, i + 1, bestOutput)
  ELSE LET q == getAmountsOut(vb, i, fromToken, toToken, amount) IN
       getBestOutputScan(vb, fromToken, toToken, amount, i + 1,
                         IF q.ok /\ q.out > bestOutput THEN q.out ELSE bestOutput)

getBestOutputForSwap(vb, fromToken, toToken, amount) ==
  getBestOutputScan(vb, fromToken, toToken, amount, 1, 0)

\* require(initiator == owner(), "Initiator is not owner")
InitiatorIsOwner(initiator) == initiator = Owner

HopRecord(kind, d, tin, tout, quoted, minOut, delivered, swapped) ==
  [kind |-> kind, dex |-> d, from |-> tin, to |-> tout, quoted |-> quoted,
   minOut |-> minOut, delivered |-> delivered, ok |-> swapped, nested |-> "none"]

AddHop(m, h) == [m EXCEPT !.tr.hops = Append(@, h)]

\* modifier nonReentrant: TRUE when it lets the call in
NonReentrant(locked) == ~locked

\* What the unit answers to a call made while a transaction is running on
\* it: the revert reason, or "entered" when the call gets past the unit's
\* guards and its body starts (for the lender's callback: the loan is on the
\* unit and executeOperation runs on to simulate, swap and repay).
NestedOutcome(attempt, locked) ==
  IF attempt = NoReentry THEN "none"
  ELSE IF attempt.via = "flashLoanSimple"
  THEN \* the lender calls executeOperation with initiator = attempt.by
       IF ~InitiatorIsOwner(attempt.by) THEN "Initiator is not owner"
       ELSE "entered"
  ELSE \* executeArbitrage / executeArbitrageWithNative: onlyOwner nonReentrant
       IF attempt.by # Owner THEN "Ownable: caller is not the owner"
       ELSE IF ~NonReentrant(locked) THEN "ReentrancyGuard: reentrant call"
       ELSE "entered"

\* the record of a swap that went through, with what the venue's call back
\* into the unit met
AddSwappedHop(m, vb, h) ==
  AddHop(m, [h EXCEPT !.nested = NestedOutcome(vb[h.dex].reenter, m.locked)])

\* swapTokensBack: ok = FALSE when it reverts (its caller catches that)
swapTokensBack(m, vb, fromToken, toToken, amount) ==
  LET best == findBestDexForSwap(vb, fromToken, toToken, amount)
      d == best.bestDexIndex + 1
      expected == getAmountsOut(vb, d, fromToken, toToken, amount)
      minOut == MinAmountOut(expected.out)
      sw == swapExactTokensForTokens(vb, d, fromToken, toToken, amount, minOut, m.bal)
  IN IF ~best.ok THEN [ok |-> FALSE, m |-> m, finalAmount |-> 0]
     ELSE IF ~expected.ok \/ ~sw.ok
     THEN [ok |-> FALSE,
           m |-> AddHop(m, HopRecord("back", d, fromToken, toToken, expected.out,
                                     minOut, 0, FALSE)),
           finalAmount |-> 0]
     ELSE [ok |-> TRUE,
           m |-> AddSwappedHop([m EXCEPT !.bal = sw.bal], vb,
                        HopRecord("back", d, fromToken, toToken, expected.out,
                                  minOut, sw.delivered, TRUE)),
           finalAmount |-> sw.bal[toToken] - m.bal[toToken]]

\* the for loop of executeSwaps from hop i on (i is 1-based).
\* st: "ok" the loop ended, "false" executeSwaps returns false, "revert"
RECURSIVE executeSwapsLoop(_, _, _, _, _, _)
executeSwapsLoop(m, vb, route, i, currentToken, currentAmount) ==
  IF i > Len(route.dexIndices)
  THEN [st |-> "ok", reason |-> "", m |-> m, currentToken |-> currentToken,
        currentAmount |-> currentAmount]
  ELSE
    LET dexIndex == route.dexIndices[i]
        d == dexIndex + 1
        nextToken == route.path[i + 1]
        amountsOut == getAmountsOut(vb, d, currentToken, nextToken, currentAmount)
        minAmountOut == MinAmountOut(amountsOut.out)
        sw == swapExactTokensForTokens(vb, d, currentToken, nextToken,
                                       currentAmount, minAmountOut, m.bal)
        swappedAmount == sw.bal[nextToken] - m.bal[nextToken]
        stop(st, reason, mm) ==
          [st |-> st, reason |-> reason, m |-> mm, currentToken |-> currentToken,
           currentAmount |-> currentAmount]
    IN IF dexIndex >= Len(dexRouters) THEN stop("revert", "Invalid DEX index", m)
       ELSE IF ~dexRouters[d].active THEN stop("revert", "DEX not active", m)
       ELSE IF ~amountsOut.ok THEN stop("revert", "getAmountsOut reverted", m)
       ELSE IF ~sw.ok
       THEN stop("false", "",
                 AddHop(m, HopRecord("hop", d, currentToken, nextToken,
                                     amountsOut.out, minAmountOut, 0, FALSE)))
       ELSE
         LET m2 == AddSwappedHop([m EXCEPT !.bal = sw.bal], vb,
                          HopRecord("hop", d, currentToken, nextToken,
                                    amountsOut.out, minAmountOut, swappedAmount, TRUE))
         IN IF ~(swappedAmount > 0) THEN stop("revert", "Zero swap amount", m2)
            ELSE executeSwapsLoop(m2, vb, route, i + 1, nextToken, swappedAmount)

\* result of executeSwaps: ok = FALSE when it reverts, else ret is the bool
\* it returns
SwapsResult(ok, reason, ret, m) == [ok |-> ok, reason |-> reason, ret |-> ret, m |-> m]

\* try swapTokensBack(...) returns ... catch { return false; }, then return true
executeSwapsBack(back) == SwapsResult(TRUE, "", back.ok, back.m)

\* executeSwaps after its for loop, whose outcome is l
executeSwapsEnd(vb, tokenA, tokenB, l) ==
  IF l.st = "revert" THEN SwapsResult(FALSE, l.reason, FALSE, l.m)
  ELSE IF l.st = "false" THEN SwapsResult(TRUE, "", FALSE, l.m)
  ELSE IF tokenA = tokenB
  THEN IF l.currentToken = tokenA THEN SwapsResult(TRUE, "", TRUE, l.m)
       ELSE SwapsResult(FALSE, "Path does not form a loop", FALSE, l.m)
  ELSE executeSwapsBack(swapTokensBack(l.m, vb, l.currentToken, tokenA, l.currentAmount))

executeSwaps(m, vb, tokenA, tokenB, amountIn, route) ==
  IF ~(Len(route.path) >= 2) THEN SwapsResult(FALSE, "Invalid path length", FALSE, m)
  ELSE IF Len(route.path) # Len(route.dexIndices) + 1
  THEN SwapsResult(FALSE, "Path/DEX indices mismatch", FALSE, m)
  ELSE executeSwapsEnd(vb, tokenA, tokenB,
                       executeSwapsLoop(m, vb, route, 1, tokenA, amountIn))

\* the for loop of simulateArbitrage; st: "ok", "false", "panic"
RECURSIVE simulateLoop(_, _, _, _, _)
simulateLoop(vb, route, i, currentToken, currentAmount) ==
  IF i > Len(route.dexIndices)
  THEN [st |-> "ok", currentToken |-> currentToken, currentAmount |-> currentAmount]
  ELSE
    LET dexIndex == route.dexIndices[i]
        d == dexIndex + 1
        stop(st) == [st |-> st, currentToken |-> currentToken,
                     currentAmount |-> currentAmount]
    IN IF dexIndex >= Len(dexRouters) \/ ~dexRouters[d].active THEN stop("false")
       ELSE IF i + 1 > Len(route.path) THEN stop("panic")
       ELSE
         LET nextToken == route.path[i + 1]
             amounts == getAmountsOut(vb, d, currentToken, nextToken, currentAmount)
         IN IF ~amounts.ok \/ amounts.out = 0 THEN stop("false")
            ELSE simulateLoop(vb, route, i + 1, nextToken, amounts.out)

\* simulateArbitrage, called from executeOperation (msg.sender is the lender):
\* "true", "false" or "panic" (an array index out of bounds reverts)
simulateArbitrage(vb, tokenA, tokenB, amountIn, route) ==
  IF Len(route.path) = 0 THEN "panic"
  ELSE
    LET l == simulateLoop(vb, route, 1, tokenA, amountIn) IN
    IF l.st # "ok" THEN l.st
    ELSE IF tokenA = tokenB
    THEN IF l.currentAmount > amountIn
            /\ l.currentAmount >= amountIn + MinProfit(amountIn)
         THEN "true" ELSE "false"
    ELSE
      LET finalAmount == getBestOutputForSwap(vb, l.currentToken, tokenA, l.currentAmount)
          totalDebt == amountIn + (amountIn * SimPremiumBps) \div 10000
      IN IF finalAmount > totalDebt /\ finalAmount >= totalDebt + MinProfit(amountIn)
         THEN "true" ELSE "false"

ArbitrageExecuted(tokenA, tokenB, amountIn, amountOut, profit) ==
  [name |-> "ArbitrageExecuted", tokenA |-> tokenA, tokenB |-> tokenB,
   amountIn |-> amountIn, amountOut |-> amountOut, profit |-> profit]

ArbitrageFailed(tokenA, tokenB, reason) ==
  [name |-> "ArbitrageFailed", tokenA |-> tokenA, tokenB |-> tokenB,
   amountIn |-> 0, amountOut |-> 0, profit |-> 0, reason |-> reason]

Emit(m, e) == [m EXCEPT !.emitted = Append(@, e)]

\* require(profit >= minProfit, "Profit below threshold")
ProfitAboveThreshold(profit, amount) == profit >= MinProfit(amount)

\* a callback that takes the whole balance for profit
WholeBalance(finalBalance, totalDebt) == finalBalance

\* uint256 profit = finalBalance - totalDebt
ProfitOver(finalBalance, totalDebt) == finalBalance - totalDebt

\* executeOperation after executeSwaps, whose outcome is sw
executeOperationSettle(asset, amount, premium, tokenB, sw) ==
  LET totalDebt == amount + premium
      finalBalance == sw.m.bal[asset]
      profit == ProfitOver(finalBalance, totalDebt)
      \* approve(POOL, totalDebt); if (profit > 0) transfer(owner(), profit)
      paid == [sw.m EXCEPT !.allow = totalDebt,
                           !.bal[asset] = @ - profit,
                           !.ownerGot = @ + profit,
                           !.tr.granted = totalDebt,
                           !.tr.toOwner = profit,
                           !.tr.held = sw.m.bal[asset] - profit]
  IN IF ~sw.ok THEN Reverted(sw.m, sw.reason)
     ELSE IF sw.ret
     THEN IF ~(finalBalance >= totalDebt) THEN Reverted(sw.m, "Insufficient funds to repay")
          ELSE IF ~ProfitAboveThreshold(profit, amount)
          THEN Reverted(sw.m, "Profit below threshold")
          ELSE Returned(Emit(paid, ArbitrageExecuted(asset, tokenB, amount,
                                                     finalBalance, profit)))
     ELSE Returned(Emit(sw.m, ArbitrageFailed(asset, tokenB, "Swap execution failed")))

\* a callback that swaps whatever the simulation said
SimulationIgnored(sim) == TRUE

\* require(profitable, "Simulation shows no profit")
SimulationProfitable(sim) == sim = "true"

\* executeOperation(asset, amount, premium, initiator, params), params holding
\* (tokenB, route, amountIn)
executeOperation(m0, vb, sender, asset, amount, premium, initiator, tokenB, route) ==
  LET m == [m0 EXCEPT !.tr.callbackRan = TRUE]
      initialBalance == m.bal[asset]
      profitable == simulateArbitrage(vb, asset, tokenB, amount, route)
      ms == [m EXCEPT !.tr.sim = profitable]
  IN IF sender # Pool THEN Reverted(m0, "Caller is not POOL")
     ELSE IF ~InitiatorIsOwner(initiator) THEN Reverted(m0, "Initiator is not owner")
     ELSE IF ~(initialBalance >= amount) THEN Reverted(m, "Insufficient loan received")
     ELSE IF profitable = "panic" THEN Reverted(ms, "Panic")
     ELSE IF ~SimulationProfitable(profitable)
     THEN Reverted(ms, "Simulation shows no profit")
     ELSE executeOperationSettle(asset, amount, premium, tokenB,
                                 executeSwaps(ms, vb, asset, tokenB, amount, route))

\* POOL.flashLoanSimple(unit, asset, amount, params, 0) called by `requester`:
\* the lender transfers the loan, calls executeOperation with initiator = its
\* own caller, and pulls amount + premium from the receiver's allowance
flashLoanRepay(asset, totalDebt, cb) ==
  IF ~cb.ok THEN cb
  ELSE IF cb.m.allow < totalDebt \/ cb.m.bal[asset] < totalDebt
  THEN Reverted(cb.m, "Loan not repaid")
  ELSE Returned([cb.m EXCEPT !.bal[asset] = @ - totalDebt, !.allow = @ - totalDebt])

flashLoanSimple(m0, vb, requester, asset, amount, tokenB, route) ==
  LET premium == (amount * PremiumBps) \div 10000
      lent == [m0 EXCEPT !.bal[asset] = @ + amount, !.tr.borrowed = TRUE]
  IN flashLoanRepay(asset, amount + premium,
                    executeOperation(lent, vb, Pool, asset, amount, premium,
                                     requester, tokenB, route))

\* a unit whose triggers do not look at the pause flag
PauseIgnored == TRUE

\* require(!_paused, "Contract is paused")
NotPaused == ~paused

\* require(block.timestamp - route.timestamp < 2 minutes, ...): "panic" when the
\* checked subtraction underflows
RouteYoung(timestamp) ==
  IF timestamp > blockTimestamp THEN "panic"
  ELSE IF blockTimestamp - timestamp < TwoMinutes THEN "ok" ELSE "old"

\* a unit whose triggers accept a route of any age
AnyAgeAccepted(timestamp) == TRUE

\* require(block.timestamp <= route.timestamp + 5 minutes, "Route expired")
RouteNotExpired(timestamp) == blockTimestamp <= timestamp + FiveMinutes

\* require(tx.gasprice <= maxGasPrice, "Gas price too high")
GasPriceOk(gasprice) == gasprice <= maxGasPrice

\* the requires of executeArbitrage, in order; "" when all pass
executeArbitrageChecks(caller, tokenA, tokenB, route, gasprice) ==
  IF caller # Owner THEN "Ownable: caller is not the owner"
  ELSE IF RouteYoung(route.timestamp) = "panic" THEN "Panic"
  ELSE IF RouteYoung(route.timestamp) = "old" THEN "Route too old, frontrunning risk"
  ELSE IF ~NotPaused THEN "Contract is paused"
  ELSE IF tokenA = tokenB THEN "Same tokens"
  ELSE IF ~activePairs[tokenA, tokenB] THEN "Pair not active"
  ELSE IF ~RouteNotExpired(route.timestamp) THEN "Route expired"
  ELSE IF ~GasPriceOk(gasprice) THEN "Gas price too high"
  ELSE ""

\* the requires of executeArbitrageWithNative, in order; "" when all pass
executeArbitrageWithNativeChecks(caller, tokenB, route, value, gasprice) ==
  IF caller # Owner THEN "Ownable: caller is not the owner"
  ELSE IF ~NotPaused THEN "Contract is paused"
  ELSE IF ~(value > 0) THEN "No ETH sent"
  ELSE IF Len(dexRouters) = 0 THEN "Panic"
  ELSE IF ~activePairs[WETH, tokenB] THEN "Pair not active"
  ELSE IF ~RouteNotExpired(route.timestamp) THEN "Route expired"
  ELSE IF ~GasPriceOk(gasprice) THEN "Gas price too high"
  ELSE ""

\* executeArbitrageWithNative after executeSwaps, whose outcome is sw
executeArbitrageWithNativeSettle(vb, tokenB, amountIn, initialBalance, sw) ==
  LET tokenA == WETH
      finalBalance == sw.m.bal[tokenA]
      profit == finalBalance - initialBalance
      \* router.swapExactTokensForETH(finalBalance, 0, [weth, weth], msg.sender, ..)
      toEth == getAmountsOut(vb, 1, WETH, WETH, finalBalance)
      sold == [sw.m EXCEPT !.bal[WETH] = @ - finalBalance, !.ethOut = @ + toEth.out]
      returned == [sw.m EXCEPT !.bal[WETH] = @ - amountIn, !.ethOut = @ + amountIn]
  IN IF ~sw.ok THEN Reverted(sw.m, sw.reason)
     ELSE IF sw.ret
     THEN IF ~(finalBalance > initialBalance) THEN Reverted(sw.m, "No profit generated")
          ELSE IF ~toEth.ok THEN Reverted(sw.m, "swapExactTokensForETH reverted")
          ELSE Returned(Emit(sold, ArbitrageExecuted(tokenA, tokenB, amountIn,
                                                     finalBalance, profit)))
     ELSE IF sw.m.bal[WETH] < amountIn THEN Reverted(sw.m, "ETH unwrap failed")
     ELSE Returned(Emit(returned, ArbitrageFailed(tokenA, tokenB, "Swap execution failed")))

\* the body of executeArbitrageWithNative after its requires
executeArbitrageWithNativeBody(m0, vb, tokenB, route, value) ==
  LET wrapped == [m0 EXCEPT !.bal[WETH] = @ + value, !.tr.wrapped = TRUE]
  IN executeArbitrageWithNativeSettle(vb, tokenB, value, wrapped.bal[WETH],
                                      executeSwaps(wrapped, vb, WETH, tokenB, value, route))

(***************************************************************************)
(* State after construction.                                               *)
(***************************************************************************)
InitUnit ==
  /\ dexRouters = <<>>
  /\ activePairs = [p \in Tokens \X Tokens |-> FALSE]
  /\ minProfitPercent = 100
  /\ maxGasPrice = 100
  /\ minReserveRatio = 20
  /\ paused = FALSE
  /\ bal = [t \in Tokens |-> 0]
  /\ blockTimestamp = 1000
  /\ nTx = 0
  /\ lastTx = NoTx

(***************************************************************************)
(* Administrative functions (onlyOwner).                                   *)
(***************************************************************************)
\* A call by another account than the owner reverts and changes nothing.
\* lastTx describes the latest transaction when that was an execution.
DexNames == <<"UniswapV2", "SushiSwap", "PancakeSwap">>
DexRouterAddresses == <<"uniRouter", "sushiRouter", "cakeRouter">>
DexFactoryAddresses == <<"uniFactory", "sushiFactory", "cakeFactory">>

addDex(caller, name, routerAddress, factoryAddress) ==
  /\ Len(dexRouters) < MaxDex
  /\ dexRouters' = IF caller = Owner
                   THEN Append(dexRouters,
                               [router |-> routerAddress, factory |-> factoryAddress,
                                name |-> name, active |-> TRUE])
                   ELSE dexRouters
  /\ lastTx' = NoTx
  /\ UNCHANGED <<orchVars, analyzerVars, searchVars, relayVars,
                 submitVars, lifeVars>>
  /\ UNCHANGED <<activePairs, minProfitPercent, maxGasPrice, minReserveRatio,
                 paused, bal, blockTimestamp, nTx>>

\* a setDexStatus that drops the venue it is asked to deactivate
setDexStatusRemoving(caller, dexIndex, active) ==
  /\ dexRouters' = IF caller = Owner /\ dexIndex < Len(dexRouters)
                   THEN IF active
                        THEN [dexRouters EXCEPT ![dexIndex + 1].active = TRUE]
                        ELSE [i \in 1..(Len(dexRouters) - 1) |->
                                IF i < dexIndex + 1 THEN dexRouters[i]
                                ELSE dexRouters[i + 1]]
                   ELSE dexRouters
  /\ lastTx' = NoTx
  /\ UNCHANGED <<orchVars, analyzerVars, searchVars, relayVars,
                 submitVars, lifeVars>>
  /\ UNCHANGED <<activePairs, minProfitPercent, maxGasPrice, minReserveRatio,
                 paused, bal, blockTimestamp, nTx>>

setDexStatus(caller, dexIndex, active) ==
  /\ dexRouters' = IF caller = Owner /\ dexIndex < Len(dexRouters)
                   THEN [dexRouters EXCEPT ![dexIndex + 1].active = active]
                   ELSE dexRouters
  /\ lastTx' = NoTx
  /\ UNCHANGED <<orchVars, analyzerVars, searchVars, relayVars,
                 submitVars, lifeVars>>
  /\ UNCHANGED <<activePairs, minProfitPercent, maxGasPrice, minReserveRatio,
                 paused, bal, blockTimestamp, nTx>>

\* a setActivePair that writes activePairs[tokenA][tokenB] only
setActivePairOneWay(caller, tokenA, tokenB, active) ==
  /\ activePairs' = IF caller = Owner
                    THEN [activePairs EXCEPT ![tokenA, tokenB] = active]
                    ELSE activePairs
  /\ lastTx' = NoTx
  /\ UNCHANGED <<orchVars, analyzerVars, searchVars, relayVars,
                 submitVars, lifeVars>>
  /\ UNCHANGED <<dexRouters, minProfitPercent, maxGasPrice, minReserveRatio,
                 paused, bal, blockTimestamp, nTx>>

setActivePair(caller, tokenA, tokenB, active) ==
  /\ activePairs' = IF caller = Owner
                    THEN [[activePairs EXCEPT ![tokenA, tokenB] = active]
                            EXCEPT ![tokenB, tokenA] = active]
                    ELSE activePairs
  /\ lastTx' = NoTx
  /\ UNCHANGED <<orchVars, analyzerVars, searchVars, relayVars,
                 submitVars, lifeVars>>
  /\ UNCHANGED <<dexRouters, minProfitPercent, maxGasPrice, minReserveRatio,
                 paused, bal, blockTimestamp, nTx>>

updateParameters(caller, p) ==
  /\ minProfitPercent' = IF caller = Owner THEN p.mpp ELSE minProfitPercent
  /\ maxGasPrice' = IF caller = Owner THEN p.mgp ELSE maxGasPrice
  /\ minReserveRatio' = IF caller = Owner THEN p.mrr ELSE minReserveRatio
  /\ lastTx' = NoTx
  /\ UNCHANGED <<orchVars, analyzerVars, searchVars, relayVars,
                 submitVars, lifeVars>>
  /\ UNCHANGED <<dexRouters, activePairs, paused, bal, blockTimestamp, nTx>>

togglePause(caller) ==
  /\ paused' = IF caller = Owner THEN ~paused ELSE paused
  /\ lastTx' = NoTx
  /\ UNCHANGED <<orchVars, analyzerVars, searchVars, relayVars,
                 submitVars, lifeVars>>
  /\ UNCHANGED <<dexRouters, activePairs, minProfitPercent, maxGasPrice,
                 minReserveRatio, bal, blockTimestamp, nTx>>

rescueERC20(caller, token) ==
  /\ bal' = IF caller = Owner THEN [bal EXCEPT ![token] = 0] ELSE bal
  /\ lastTx' = NoTx
  /\ UNCHANGED <<orchVars, analyzerVars, searchVars, relayVars,
                 submitVars, lifeVars>>
  /\ UNCHANGED <<registryVars, blockTimestamp, nTx>>

(***************************************************************************)
(* The environment: a token transfer to the unit from any holder.          *)
(***************************************************************************)
TransferToUnit(token, amount) ==
  /\ bal[token] + amount <= MaxStray
  /\ bal' = [bal EXCEPT ![token] = @ + amount]
  /\ lastTx' = NoTx
  /\ UNCHANGED <<orchVars, analyzerVars, searchVars, relayVars,
                 submitVars, lifeVars>>
  /\ UNCHANGED <<registryVars, blockTimestamp, nTx>>

(***************************************************************************)
(* Execution transactions.                                                 *)
(***************************************************************************)
Route(shape, age) ==
  [path |-> shape.path, dexIndices |-> shape.dexIndices,
   timestamp |-> blockTimestamp - age]

\* the arguments of a call that lastTx keeps
Call(caller, tokenA, tokenB, age, gasprice, shape) ==
  [caller |-> caller, tokenA |-> tokenA, tokenB |-> tokenB, age |-> age,
   gasprice |-> gasprice, route |-> shape, plainProfit |-> FALSE]

\* the premium the lender charges on a loan of `amount`
LoanPremium(amount) == (amount * PremiumBps) \div 10000

\* a venue that quotes and swaps honestly in this transaction and refuses a
\* pair of identical tokens
PlainVenue(b) == b.mode = "exact" /\ ~b.sameOk /\ b.reenter = NoReentry /\ b.rate > 0

\* what the two hops of a route over the path [A, B, A] return for the
\* loan, at the venues' quotes
LoopOutput(vb, call) ==
  LET d1 == call.route.dexIndices[1] + 1
      d2 == call.route.dexIndices[2] + 1
      o1 == getAmountsOut(vb, d1, call.tokenA, call.tokenB, LoanAmount).out
  IN getAmountsOut(vb, d2, call.tokenB, call.tokenA, o1).out

\* every venue behaves plainly and the route, two hops at registered
\* venues, is quoted above the loan, the premium and the minimum profit
PlainProfit(vb, call) ==
  /\ \A d \in DOMAIN vb : PlainVenue(vb[d])
  /\ Len(call.route.dexIndices) = 2
  /\ \A i \in 1..2 : call.route.dexIndices[i] < Len(dexRouters)
  /\ LoopOutput(vb, call) > LoanAmount + LoanPremium(LoanAmount) + MinProfit(LoanAmount)

\* the same call, run against venues that behave as vb says
Against(call, vb) == [call EXCEPT !.plainProfit = PlainProfit(vb, call)]

TxRecord(kind, call, r) ==
  [kind |-> kind, status |-> IF r.ok THEN "committed" ELSE "reverted",
   reason |-> r.reason, events |-> IF r.ok THEN r.m.emitted ELSE <<>>,
   emitted |-> r.m.emitted, age |-> call.age, pausedAtCall |-> paused,
   caller |-> call.caller, tr |-> r.m.tr, balBefore |-> bal,
   ownerGot |-> IF r.ok THEN r.m.ownerGot ELSE 0,
   ethOut |-> IF r.ok THEN r.m.ethOut ELSE 0, mpp |-> minProfitPercent,
   tokenA |-> call.tokenA, tokenB |-> call.tokenB, gasprice |-> call.gasprice,
   route |-> call.route, plainProfit |-> call.plainProfit]

\* a unit that pauses itself when an execution commits ArbitrageFailed
FinishPausingOnFailure(kind, call, r) ==
  /\ bal' = IF r.ok THEN r.m.bal ELSE bal
  /\ lastTx' = TxRecord(kind, call, r)
  /\ nTx' = nTx + 1
  /\ blockTimestamp' = blockTimestamp + 12
  /\ paused' = (paused \/ (r.ok /\ \E k \in DOMAIN r.m.emitted :
                                      r.m.emitted[k].name = "ArbitrageFailed"))
  /\ UNCHANGED <<dexRouters, activePairs, minProfitPercent, maxGasPrice,
                 minReserveRatio, orchVars, analyzerVars, searchVars, relayVars,
                 submitVars, lifeVars>>

\* the ledger commits the transaction's effects, or none of them when it
\* reverts; the next transaction is mined in a later block
Finish(kind, call, r) ==
  /\ bal' = IF r.ok THEN r.m.bal ELSE bal
  /\ lastTx' = TxRecord(kind, call, r)
  /\ nTx' = nTx + 1
  /\ blockTimestamp' = blockTimestamp + 12
  /\ UNCHANGED <<registryVars, orchVars, analyzerVars, searchVars, relayVars,
                 submitVars, lifeVars>>

executeArbitrage(caller, tokenA, tokenB, amountIn, shape, age, gasprice) ==
  /\ nTx < MaxTx
  /\ LET route == Route(shape, age)
         why == executeArbitrageChecks(caller, tokenA, tokenB, route, gasprice)
         call == Call(caller, tokenA, tokenB, age, gasprice, shape)
     IN IF why # ""
        THEN Finish("executeArbitrage", call, Reverted(StartMachine, why))
        ELSE \E vb \in Scenarios :
               Finish("executeArbitrage", Against(call, vb),
                      flashLoanSimple(Locked(StartMachine), vb, Unit, tokenA, amountIn,
                                      tokenB, route))

executeArbitrageWithNative(caller, tokenB, value, shape, age, gasprice) ==
  /\ nTx < MaxTx
  /\ LET route == Route(shape, age)
         why == executeArbitrageWithNativeChecks(caller, tokenB, route, value, gasprice)
         call == Call(caller, WETH, tokenB, age, gasprice, shape)
     IN IF why # ""
        THEN Finish("executeArbitrageWithNative", call, Reverted(StartMachine, why))
        ELSE \E vb \in Scenarios :
               Finish("executeArbitrageWithNative", Against(call, vb),
                      executeArbitrageWithNativeBody(Locked(StartMachine), vb, tokenB,
                                                     route, value))

\* any account asks the lender for a loan with the unit as receiver
requestFlashLoan(caller, asset, tokenB, amount, shape, age) ==
  /\ nTx < MaxTx
  /\ \E vb \in Scenarios :
       Finish("flashLoanSimple",
              Against(Call(caller, asset, tokenB, age, 0, shape), vb),
              flashLoanSimple(StartMachine, vb, caller, asset, amount, tokenB,
                              Route(shape, age)))

NextUnit ==
  \/ \E c \in Callers : addDex(c, DexNames[Len(dexRouters) + 1],
                               DexRouterAddresses[Len(dexRouters) + 1],
                               DexFactoryAddresses[Len(dexRouters) + 1])
  \/ \E c \in Callers, i \in 0..MaxDex, a \in BOOLEAN : setDexStatus(c, i, a)
  \/ \E c \in Callers, p \in PairInputs, a \in BOOLEAN : setActivePair(c, p[1], p[2], a)
  \/ \E c \in Callers, p \in ParamChoices : updateParameters(c, p)
  \/ \E c \in Callers : togglePause(c)
  \/ \E c \in Callers, t \in Tokens : rescueERC20(c, t)
  \/ TransferToUnit(WETH, LoanAmount)
  \/ \E c \in Callers, p \in TokenArgs, s \in RouteShapes, age \in RouteAges,
        g \in GasPrices : executeArbitrage(c, p[1], p[2], LoanAmount, s, age, g)
  \/ \E c \in Callers, t \in {"WETH", "TKB"}, v \in {0, LoanAmount},
        s \in RouteShapes, age \in RouteAges, g \in GasPrices :
          executeArbitrageWithNative(c, t, v, s, age, g)
  \/ \E c \in Callers, p \in TokenArgs, s \in RouteShapes, age \in {0, 400} :
          requestFlashLoan(c, p[1], p[2], LoanAmount, s, age)


(***************************************************************************)
(* The orchestrator.  Its code runs on one thread: a step below is the     *)
(* code between two awaits, and the steps of overlapping invocations of    *)
(* checkArbitrageOpportunities (setInterval starts one every               *)
(* pollingInterval, whether or not the previous one has returned)          *)
(* interleave at the awaits.                                               *)
(***************************************************************************)
MaxCycles == 2         \* overlapping invocations of the scan task
MaxTicks == 2          \* clock advances per behaviour
MaxAttempts == 2       \* transactions sent per behaviour

maxExecutionsPerHour == 1
executionCooldown == 30      \* seconds
RecheckMs == 5000
HourMs == 60 * 60 * 1000
ConfigMaxGasPrice == 100     \* gwei

WatchedPairIds == {"WETH/TKB", "WETH/TKC"}
CycleIds == 1..MaxCycles
TickChoices == {5000, HourMs}

\* what findBestArbitrageRoute resolves to: null, a candidate that is not
\* profitable, or one that clears the thresholds.  hasTokens: whether the
\* object carries the tokenA and tokenB that executeArbitrage destructures.
\* The object findBestArbitrageRoute builds carries neither; executeArbitrage
\* is modelled for both.
FindResults ==
  { [kind |-> "null", hasTokens |-> FALSE],
    [kind |-> "unprofitable", hasTokens |-> FALSE],
    [kind |-> "actionable", hasTokens |-> FALSE],
    [kind |-> "actionable", hasTokens |-> TRUE] }

\* soon: the pair's scan began within executionCooldown of an execution on it
IdleCycle ==
  [pc |-> "idle", todo |-> {}, pair |-> "", now |-> 0,
   opp |-> [kind |-> "null", hasTokens |-> FALSE], tx |-> 0, soon |-> FALSE]

\* executeArbitrage has returned to the for loop: its locals are gone
BackInLoop(cyc) == [IdleCycle EXCEPT !.pc = "loop", !.todo = cyc.todo]

\* Date.now() at start-up is far beyond any interval the code compares
InitOrch ==
  /\ clock = 2 * HourMs
  /\ nTicks = 0
  /\ executionHistory = <<>>
  /\ watchedPairs = [p \in WatchedPairIds |-> [lastChecked |-> 0, successCount |-> 0]]
  /\ cycles = [c \in CycleIds |-> IdleCycle]
  /\ attempts = <<>>
  /\ isRunning = FALSE
  /\ useFlashbots = FALSE

\* the networks FlashbotsManager supports, and the chain of config-mainnet.js
supportedNetworks == {1, 5, 11155111}
chainId == 1

\* the process is started with USE_FLASHBOTS set to 'true' or not; startBot
\* ends with isRunning = true and schedulePeriodicTasks()
startBot(flashbots) ==
  /\ ~isRunning
  /\ isRunning' = TRUE
  /\ useFlashbots' = flashbots
  /\ UNCHANGED <<clock, nTicks, executionHistory, watchedPairs, cycles, attempts,
                 unitVars, analyzerVars, searchVars, relayVars,
                 submitVars, lifeVars>>

Tick(delta) ==
  /\ nTicks < MaxTicks
  /\ clock' = clock + delta
  /\ nTicks' = nTicks + 1
  /\ UNCHANGED <<executionHistory, watchedPairs, cycles, attempts, isRunning, useFlashbots,
               unitVars, analyzerVars, searchVars, relayVars,
                 submitVars, lifeVars>>

\* executionHistory.filter(e => e.timestamp > oneHourAgo)
recentExecutions(now) ==
  { k \in DOMAIN executionHistory : executionHistory[k].timestamp > now - HourMs }

\* the gate at the top of executeArbitrage: TRUE when it returns false
RateLimited(now) ==
  /\ Len(executionHistory) >= maxExecutionsPerHour
  /\ Cardinality(recentExecutions(now)) >= maxExecutionsPerHour

\* the executions on pair p that have ended, and whose scan began less than
\* executionCooldown seconds before `now`
endedWithinCooldown(p, now) ==
  { i \in DOMAIN attempts :
      /\ attempts[i].pair = p
      /\ attempts[i].status # "pending"
      /\ now - attempts[i].scanAt < executionCooldown * 1000 }

\* the executions that have ended, and whose scan began less than an hour
\* before `now`
endedWithinHour(now) ==
  { i \in DOMAIN attempts :
      attempts[i].status # "pending" /\ attempts[i].scanAt > now - HourMs }

\* setInterval fires: checkArbitrageOpportunities up to await provider.getGasPrice()
cycleStart(c) ==
  /\ isRunning
  /\ cycles[c].pc = "idle"
  /\ cycles' = [cycles EXCEPT ![c] = [IdleCycle EXCEPT !.pc = "gas"]]
  /\ UNCHANGED <<clock, nTicks, executionHistory, watchedPairs, attempts, isRunning, useFlashbots,
               unitVars, analyzerVars, searchVars, relayVars,
                 submitVars, lifeVars>>

\* the gas price arrives: return when it is over the ceiling, else shuffle
\* the watched pairs and take the first 10
cycleGasPrice(c, g) ==
  /\ cycles[c].pc = "gas"
  /\ cycles' = [cycles EXCEPT ![c] =
                  IF g > ConfigMaxGasPrice THEN IdleCycle
                  ELSE [@ EXCEPT !.pc = "loop", !.todo = WatchedPairIds]]
  /\ UNCHANGED <<clock, nTicks, executionHistory, watchedPairs, attempts, isRunning, useFlashbots,
               unitVars, analyzerVars, searchVars, relayVars,
                 submitVars, lifeVars>>

\* one iteration of the for loop up to await findBestArbitrageRoute(...)
cycleNextPair(c, p) ==
  /\ cycles[c].pc = "loop"
  /\ p \in cycles[c].todo
  /\ IF clock - watchedPairs[p].lastChecked < RecheckMs
     THEN /\ cycles' = [cycles EXCEPT ![c].todo = @ \ {p}]
          /\ UNCHANGED watchedPairs
     ELSE /\ watchedPairs' = [watchedPairs EXCEPT ![p].lastChecked = clock]
          /\ cycles' = [cycles EXCEPT ![c] =
                          [@ EXCEPT !.pc = "find", !.todo = @ \ {p}, !.pair = p,
                                    !.now = clock,
                                    !.soon = endedWithinCooldown(p, clock) # {}]]
  /\ UNCHANGED <<clock, nTicks, executionHistory, attempts, isRunning, useFlashbots,
               unitVars, analyzerVars, searchVars, relayVars,
                 submitVars, lifeVars>>

\* the for loop has run through pairsToCheck
cycleEnd(c) ==
  /\ cycles[c].pc = "loop"
  /\ cycles[c].todo = {}
  /\ cycles' = [cycles EXCEPT ![c] = IdleCycle]
  /\ UNCHANGED <<clock, nTicks, executionHistory, watchedPairs, attempts, isRunning, useFlashbots,
               unitVars, analyzerVars, searchVars, relayVars,
                 submitVars, lifeVars>>

\* findBestArbitrageRoute resolves; for an actionable result executeArbitrage
\* runs up to its first await (the rate gate, the route and its timestamp)
cycleRouteFound(c, result) ==
  /\ cycles[c].pc = "find"
  /\ cycles' = [cycles EXCEPT ![c] =
                  IF result.kind = "actionable" /\ ~RateLimited(clock)
                  THEN [@ EXCEPT !.pc = "send", !.opp = result]
                  ELSE BackInLoop(cycles[c])]
  /\ UNCHANGED <<clock, nTicks, executionHistory, watchedPairs, attempts, isRunning, useFlashbots,
               unitVars, analyzerVars, searchVars, relayVars,
                 submitVars, lifeVars>>

\* executeArbitrage from provider.getGasPrice() to the transaction being sent:
\* logging tokenA.symbol throws when the opportunity has no tokenA, the send
\* itself can throw; both end in the catch, which returns false.  The
\* transaction goes out through contract.executeArbitrage on the wallet's
\* provider, that is to the public network.
executeArbitrageSend(c, sent) ==
  /\ cycles[c].pc = "send"
  /\ Len(attempts) < MaxAttempts
  /\ IF cycles[c].opp.hasTokens /\ sent
     THEN /\ attempts' = Append(attempts,
                                [pair |-> cycles[c].pair, scanAt |-> cycles[c].now,
                                 status |-> "pending",
                                 ended |-> Cardinality(endedWithinHour(clock)),
                                 channel |-> "public"])
          /\ cycles' = [cycles EXCEPT ![c] =
                          [@ EXCEPT !.pc = "wait", !.tx = Len(attempts) + 1]]
     ELSE /\ cycles' = [cycles EXCEPT ![c] = BackInLoop(cycles[c])]
          /\ UNCHANGED attempts
  /\ UNCHANGED <<clock, nTicks, executionHistory, watchedPairs, isRunning, useFlashbots,
               unitVars, analyzerVars, searchVars, relayVars,
                 submitVars, lifeVars>>

\* tx.wait() settles: receipt.status 1, or a failed transaction
executeArbitrageReceipt(c, status) ==
  /\ cycles[c].pc = "wait"
  /\ attempts' = [attempts EXCEPT ![cycles[c].tx].status = status]
  /\ IF status = "1"
     THEN \* executionHistory.push(...); return true; the caller counts the
          \* success and starts the cooldown
          /\ executionHistory' = Append(executionHistory,
                                        [timestamp |-> clock, txHash |-> cycles[c].tx])
          /\ watchedPairs' = [watchedPairs EXCEPT ![cycles[c].pair] =
                                [lastChecked |-> cycles[c].now + executionCooldown * 1000,
                                 successCount |-> @.successCount + 1]]
     ELSE UNCHANGED <<executionHistory, watchedPairs>>
  /\ cycles' = [cycles EXCEPT ![c] = BackInLoop(cycles[c])]
  /\ UNCHANGED <<clock, nTicks, isRunning, useFlashbots,
               unitVars, analyzerVars, searchVars, relayVars,
                 submitVars, lifeVars>>

NextOrch ==
  \/ \E f \in BOOLEAN : startBot(f)
  \/ \E d \in TickChoices : Tick(d)
  \/ \E c \in CycleIds : cycleStart(c)
  \/ \E c \in CycleIds, g \in GasPrices : cycleGasPrice(c, g)
  \/ \E c \in CycleIds, p \in WatchedPairIds : cycleNextPair(c, p)
  \/ \E c \in CycleIds : cycleEnd(c)
  \/ \E c \in CycleIds, r \in FindResults : cycleRouteFound(c, r)
  \/ \E c \in CycleIds, sent \in BOOLEAN : executeArbitrageSend(c, sent)
  \/ \E c \in CycleIds, st \in {"0", "1"} : executeArbitrageReceipt(c, st)

(***************************************************************************)
(* Specifications: the unit with its owner, lender and venues; the         *)
(* orchestrator with the network.                                          *)
(***************************************************************************)

(***************************************************************************)
(* The risk and calibration module.  An error ratio e is the integer       *)
(* e * ErrorScale; the samples fed are exact at that scale.  Means and     *)
(* variances are fractions num/den of integers, compared by cross          *)
(* multiplication, so that no rounding enters a threshold test.            *)
(***************************************************************************)
MaxSamples == 11       \* samples fed to the analyzer followed alone
MaxPairSamples == 6    \* samples fed to each of two analyzers compared

ErrorScale == 16
MinSamples == 5        \* historicalData.length < 5
RecentWindow == 10     \* slice(-10)
HistoryCap == 100      \* historicalData.length > 100

Analyzers == {"main", "other"}

\* this.errorThreshold, this.criticalErrorThreshold and the 0.2 that stdDev
\* is compared with
errorThreshold == [num |-> 1, den |-> 10]
criticalErrorThreshold == [num |-> 3, den |-> 10]
VolatilityThreshold == [num |-> 2, den |-> 10]

\* x > y for fractions with positive denominators
GreaterThan(x, y) == x.num * y.den > y.num * x.den

Square(x) == [num |-> x.num * x.num, den |-> x.den * x.den]

\* minProfitPercent in hundredths of a percent: TEST_CONFIG and the
\* config files' default, with USE_FLASHBOTS set or not
NoConfig == [minProfitPercent |-> 0, useFlashbots |-> FALSE, built |-> FALSE]

Configs ==
  { [minProfitPercent |-> 20, useFlashbots |-> FALSE, built |-> TRUE],
    [minProfitPercent |-> 50, useFlashbots |-> FALSE, built |-> TRUE],
    [minProfitPercent |-> 50, useFlashbots |-> TRUE, built |-> TRUE] }

\* tradeData: estimated and actual profit; actual 0 is "Missing data"
Trades ==
  { [estimated |-> 16, actual |-> 16],
    [estimated |-> 16, actual |-> 7],
    [estimated |-> 16, actual |-> 0] }

NoRisk == [level |-> "none", message |-> ""]

NoStrategy ==
  [recommendedSlippage |-> 0, recommendedMinProfit |-> 0,
   useMEVProtection |-> FALSE]

NoCall == [op |-> "none", risk |-> NoRisk, strategy |-> NoStrategy]

InitAnalyzer ==
  /\ config = NoConfig
  /\ historicalData = [a \in Analyzers |-> <<>>]
  /\ recorded = [a \in Analyzers |-> <<>>]
  /\ lastCall = [a \in Analyzers |-> NoCall]

\* new ProfitAnalyzer(logger, config) for both analyzers; no statistics file
\* exists yet, so loadHistoricalData leaves historicalData empty
ProfitAnalyzer(cfg) ==
  /\ ~config.built
  /\ config' = cfg
  /\ historicalData' = [a \in Analyzers |-> <<>>]
  /\ recorded' = [a \in Analyzers |-> <<>>]
  /\ lastCall' = [a \in Analyzers |-> NoCall]
  /\ UNCHANGED <<unitVars, orchVars, searchVars, relayVars,
                 submitVars, lifeVars>>

Abs(x) == IF x < 0 THEN -x ELSE x

\* Math.abs(estimated - actual) / estimated
errorRatio(estimated, actual) ==
  (Abs(estimated - actual) * ErrorScale) \div estimated

\* a slice that keeps every element
KeepAll(h, k) == h

\* array.slice(-k)
SliceLast(h, k) == IF Len(h) > k THEN SubSeq(h, Len(h) - k + 1, Len(h)) ELSE h

\* a history that keeps its oldest entries when it is full
RecordedKeepingOldest(h, e) ==
  LET pushed == Append(h, e)
  IN IF Len(pushed) > HistoryCap THEN SubSeq(pushed, 1, HistoryCap) ELSE pushed

\* the push and the slice(-100) of analyzeEstimationAccuracy
Recorded(h, e) ==
  LET pushed == Append(h, e)
  IN IF Len(pushed) > HistoryCap THEN SliceLast(pushed, HistoryCap) ELSE pushed

analyzeEstimationAccuracy(a, tradeData) ==
  /\ config.built
  /\ IF tradeData.estimated = 0 \/ tradeData.actual = 0
     THEN UNCHANGED <<historicalData, recorded>>
     ELSE LET e == errorRatio(tradeData.estimated, tradeData.actual)
          IN /\ historicalData' = [historicalData EXCEPT ![a] = Recorded(@, e)]
             /\ recorded' = [recorded EXCEPT ![a] = Append(@, e)]
  /\ lastCall' = [lastCall EXCEPT ![a] = NoCall]
  /\ UNCHANGED <<config, unitVars, orchVars, searchVars, relayVars,
                 submitVars, lifeVars>>

\* recentTrades.reduce((sum, trade) => sum + trade.errorRatio, 0)
RECURSIVE SumErrors(_)
SumErrors(trades) ==
  IF trades = <<>> THEN 0 ELSE Head(trades) + SumErrors(Tail(trades))

\* recentTrades.reduce((sum, trade) => sum + Math.pow(trade.errorRatio - avgError, 2), 0)
\* in units of 1 / (n * ErrorScale)^2, n being the number of trades summed over
RECURSIVE SumSquaredDeviations(_, _, _)
SumSquaredDeviations(trades, n, total) ==
  IF trades = <<>> THEN 0
  ELSE (n * Head(trades) - total) * (n * Head(trades) - total)
         + SumSquaredDeviations(Tail(trades), n, total)

avgErrorOf(recentTrades) ==
  [num |-> SumErrors(recentTrades), den |-> Len(recentTrades) * ErrorScale]

varianceOf(recentTrades) ==
  LET n == Len(recentTrades)
  IN [num |-> SumSquaredDeviations(recentTrades, n, SumErrors(recentTrades)),
      den |-> n * (n * ErrorScale) * (n * ErrorScale)]

\* a classification with the two thresholds on the mean exchanged
riskLevelSwapped(avgError, variance) ==
  IF GreaterThan(avgError, criticalErrorThreshold)
  THEN [level |-> "medium", message |-> "Medium risk: Significant estimation error"]
  ELSE IF GreaterThan(avgError, errorThreshold)
  THEN [level |-> "high", message |-> "High risk: Large average estimation error"]
  ELSE IF GreaterThan(variance, Square(VolatilityThreshold))
  THEN [level |-> "medium", message |-> "Medium risk: Volatile estimation accuracy"]
  ELSE [level |-> "low", message |-> "Low risk: Consistent estimation accuracy"]

\* the if / else if chain of assessRisk on the two statistics; stdDev is the
\* square root of the variance, and stdDev > 0.2 exactly when variance > 0.2^2
riskLevel(avgError, variance) ==
  IF GreaterThan(avgError, criticalErrorThreshold)
  THEN [level |-> "high", message |-> "High risk: Large average estimation error"]
  ELSE IF GreaterThan(avgError, errorThreshold)
  THEN [level |-> "medium", message |-> "Medium risk: Significant estimation error"]
  ELSE IF GreaterThan(variance, Square(VolatilityThreshold))
  THEN [level |-> "medium", message |-> "Medium risk: Volatile estimation accuracy"]
  ELSE [level |-> "low", message |-> "Low risk: Consistent estimation accuracy"]

\* the samples assessRisk looks at
recentTradesOf(h) == SliceLast(h, RecentWindow)

\* what assessRisk() returns on the stored samples h (level and message; the
\* two statistics it also returns as formatted strings are left out)
assessRiskOn(h) ==
  IF Len(h) < MinSamples
  THEN [level |-> "unknown", message |-> "Not enough historical data"]
  ELSE riskLevel(avgErrorOf(recentTradesOf(h)), varianceOf(recentTradesOf(h)))

assessRisk(a) ==
  /\ config.built
  /\ lastCall' = [lastCall EXCEPT ![a] = [op |-> "assessRisk",
                                          risk |-> assessRiskOn(historicalData[a]),
                                          strategy |-> NoStrategy]]
  /\ UNCHANGED <<config, historicalData, recorded, unitVars, orchVars, searchVars, relayVars,
                 submitVars, lifeVars>>

\* a recommendation that relaxes the slippage when the risk is high
strategyForRelaxed(level) ==
  CASE level = "high" ->
         [recommendedSlippage |-> 10,
          recommendedMinProfit |-> config.minProfitPercent * 2,
          useMEVProtection |-> TRUE]
    [] level = "medium" ->
         [recommendedSlippage |-> 5,
          recommendedMinProfit |-> (config.minProfitPercent * 3) \div 2,
          useMEVProtection |-> TRUE]
    [] OTHER ->
         [recommendedSlippage |-> 2,
          recommendedMinProfit |-> config.minProfitPercent,
          useMEVProtection |-> config.useFlashbots]

\* the switch of recommendStrategy; recommendedSlippage in tenths of a
\* percent, recommendedMinProfit in hundredths of a percent
strategyFor(level) ==
  CASE level = "high" ->
         [recommendedSlippage |-> 2,
          recommendedMinProfit |-> config.minProfitPercent * 2,
          useMEVProtection |-> TRUE]
    [] level = "medium" ->
         [recommendedSlippage |-> 5,
          recommendedMinProfit |-> (config.minProfitPercent * 3) \div 2,
          useMEVProtection |-> TRUE]
    [] OTHER ->
         [recommendedSlippage |-> 10,
          recommendedMinProfit |-> config.minProfitPercent,
          useMEVProtection |-> config.useFlashbots]

recommendStrategy(a) ==
  /\ config.built
  /\ LET risk == assessRiskOn(historicalData[a])
     IN lastCall' = [lastCall EXCEPT ![a] = [op |-> "recommendStrategy",
                                             risk |-> risk,
                                             strategy |-> strategyFor(risk.level)]]
  /\ UNCHANGED <<config, historicalData, recorded, unitVars, orchVars, searchVars, relayVars,
                 submitVars, lifeVars>>

\* one analyzer, fed up to MaxSamples trades
NextRisk ==
  \/ \E cfg \in Configs : ProfitAnalyzer(cfg)
  \/ \E t \in Trades : /\ Len(historicalData["main"]) < MaxSamples
                       /\ analyzeEstimationAccuracy("main", t)
  \/ assessRisk("main")
  \/ recommendStrategy("main")

\* two analyzers, each fed up to MaxPairSamples trades
NextRiskPair ==
  \/ \E cfg \in Configs : ProfitAnalyzer(cfg)
  \/ \E a \in Analyzers, t \in Trades :
       /\ Len(historicalData[a]) < MaxPairSamples
       /\ analyzeEstimationAccuracy(a, t)
  \/ \E a \in Analyzers : assessRisk(a)
  \/ \E a \in Analyzers : recommendStrategy(a)

\* one analyzer fed until its history is full and beyond.  The first
\* FreeFrom trades alternate between an exact estimate and an overestimate,
\* the later ones are any of Trades.
MaxRecorded == 103     \* samples fed to the analyzer whose history fills up
FreeFrom == 97

PatternTrade(n) ==
  [estimated |-> 16, actual |-> IF n % 2 = 0 THEN 16 ELSE 7]

NextHistory ==
  \/ \E cfg \in Configs : ProfitAnalyzer(cfg)
  \/ \E t \in Trades :
       /\ Len(recorded["main"]) < MaxRecorded
       /\ Len(recorded["main"]) < FreeFrom => t = PatternTrade(Len(recorded["main"]))
       /\ analyzeEstimationAccuracy("main", t)

(***************************************************************************)
(* findBestArbitrageRoute (arbitrage-manager).  One step of the model is   *)
(* the code up to its next await on a quote.  Amounts are in units of      *)
(* 1 / OneToken token: the search always prices amountIn = parseUnits('1'),*)
(* so profitPercent = profit / OneToken * 100.                             *)
(***************************************************************************)
NumDexes == 3          \* CONFIG.dexes.length
MaxK == 4              \* how far a loop counter is followed
OneToken == 1000           \* parseUnits('1', decimals)
ConfigMinProfitUSD == 5
ConfigMinProfitPercent == [num |-> 1, den |-> 2]    \* 0.5

Failed == -1           \* a getAmountsOut call that rejects
\* what the last quote of a route answers: a loss, or a gain of 0.3%, 0.8%
FinalAmounts == {OneToken - 1, OneToken + 3, OneToken + 8}
Quotes == {Failed} \cup FinalAmounts
\* estimateGasCost converted to the token; provider.getGasPrice() can reject
GasInToken == {Failed, 0, 3, 5}
\* getTokenPriceUSD: 0 when the price is unknown
TokenPricesUSD == {0, 1, 1000, 2000}

NoCandidate ==
  [kind |-> "none", type |-> "", dexIndices |-> <<>>, profit |-> 0,
   netProfitInToken |-> 0, tokenPriceUSD |-> 0, profitable |-> FALSE]
Null == [NoCandidate EXCEPT !.kind = "null"]

\* thrown: what sent the function to its catch, "quote" for a rejected
\* getAmountsOut, "gas" for a rejected gas price
IdleFrame == [pc |-> "idle", d |-> 0, i |-> 0, j |-> 0, k |-> 0, thrown |-> ""]

InitSearch ==
  /\ searchConfig = [maxHops |-> 2, thirdToken |-> FALSE]
  /\ frame = IdleFrame
  /\ prices = <<>>
  /\ routes = <<>>
  /\ triples = <<>>
  /\ searchResult = NoCandidate
  /\ called = FALSE

\* parseFloat(formatUnits(amount, decimals)) * 100 >= CONFIG.minProfitPercent
PercentAtLeastMin(amount) ==
  amount * 100 * ConfigMinProfitPercent.den >= ConfigMinProfitPercent.num * OneToken

\* parseFloat(formatUnits(amount, decimals)) * tokenPriceUSD >= CONFIG.minProfitUSD
USDAtLeastMin(amount, tokenPriceUSD) ==
  amount * tokenPriceUSD >= ConfigMinProfitUSD * OneToken

\* routes.push({...}) when profit.gt(0)
PushIfProfit(rs, type, dexIndices, finalAmount) ==
  IF finalAmount - OneToken > 0
  THEN Append(rs, [type |-> type, dexIndices |-> dexIndices,
                   profit |-> finalAmount - OneToken])
  ELSE rs

\* routes.sort((a, b) => b.profitPercent - a.profitPercent)[0]: the sort is
\* stable, so the first of the routes with the largest profit
bestRouteOf(rs) ==
  LET best == CHOOSE n \in DOMAIN rs :
                /\ \A m \in DOMAIN rs : rs[m].profit <= rs[n].profit
                /\ \A m \in DOMAIN rs : rs[m].profit = rs[n].profit => n <= m
  IN rs[best]

\* checkArbitrageOpportunities calls findBestArbitrageRoute(tokenA, tokenB)
searchStart(maxHops, thirdToken) ==
  /\ frame.pc = "idle"
  /\ searchConfig' = [maxHops |-> maxHops, thirdToken |-> thirdToken]
  /\ frame' = [IdleFrame EXCEPT !.pc = "prices"]
  /\ UNCHANGED <<prices, routes, triples, searchResult, called,
                 unitVars, orchVars, analyzerVars, relayVars,
                 submitVars, lifeVars>>

\* the position after i, j of the 2-hop loops that runs the body: i === j
\* is skipped; n is prices.length
RECURSIVE twoHopFrom(_, _, _)
twoHopFrom(i, j, n) ==
  IF i >= n THEN <<n, 0>>
  ELSE IF j >= n THEN twoHopFrom(i + 1, 0, n)
  ELSE IF i = j THEN twoHopFrom(i, j + 1, n)
  ELSE <<i, j>>

\* the 3-hop section is entered: CONFIG.maxHops >= 3 and tokenList has a
\* tokenC that is neither tokenA nor tokenB
EntersThreeHop == searchConfig.maxHops >= 3 /\ searchConfig.thirdToken

\* after the route loops: return null without routes, else go on to the
\* gas estimate
afterLoops(f, rs) ==
  IF rs = <<>> THEN [f EXCEPT !.pc = "returned"] ELSE [f EXCEPT !.pc = "estimate"]

\* after the 2-hop loops
afterTwoHop(f, rs) ==
  IF EntersThreeHop
  THEN [f EXCEPT !.pc = "threeHop", !.i = 0, !.j = 0, !.k = 0]
  ELSE afterLoops(f, rs)

\* the frame at position p of the 2-hop loops
twoHopAt(f, p, n, rs) ==
  IF p[1] >= n THEN afterTwoHop(f, rs)
  ELSE [f EXCEPT !.pc = "twoHop", !.i = p[1], !.j = p[2]]

\* one iteration of the price loop: both quotes of the venue, pushed to
\* prices, or the venue skipped when one of them rejects; after the last
\* venue, return null with fewer than two prices, else enter the 2-hop loops
priceStep(ok) ==
  /\ frame.pc = "prices"
  /\ LET ps == IF ok THEN Append(prices, frame.d) ELSE prices
     IN /\ prices' = ps
        /\ IF frame.d + 1 < NumDexes
           THEN /\ frame' = [frame EXCEPT !.d = @ + 1]
                /\ UNCHANGED searchResult
           ELSE IF Len(ps) < 2
           THEN /\ frame' = [frame EXCEPT !.pc = "returned"]
                /\ searchResult' = Null
           ELSE LET f == twoHopAt(frame, twoHopFrom(0, 0, Len(ps)), Len(ps), routes)
                IN /\ frame' = f
                   /\ searchResult' = IF f.pc = "returned" THEN Null ELSE searchResult
  /\ UNCHANGED <<searchConfig, routes, triples, called,
                 unitVars, orchVars, analyzerVars, relayVars,
                 submitVars, lifeVars>>

\* the body of the 2-hop loops for prices[i], prices[j]: two quotes outside
\* any inner try, so a rejection goes to the catch of the function, which
\* returns null
twoHopStep(ok1, q2) ==
  /\ frame.pc = "twoHop"
  /\ IF ~ok1 \/ q2 = Failed
     THEN /\ frame' = [frame EXCEPT !.pc = "returned", !.thrown = "quote"]
          /\ searchResult' = Null
          /\ UNCHANGED routes
     ELSE LET rs == PushIfProfit(routes, "2-hop",
                                 <<prices[frame.i + 1], prices[frame.j + 1]>>, q2)
              f == twoHopAt(frame, twoHopFrom(frame.i, frame.j + 1, Len(prices)),
                            Len(prices), rs)
          IN /\ routes' = rs
             /\ frame' = f
             /\ searchResult' = IF f.pc = "returned" THEN Null ELSE searchResult
  /\ UNCHANGED <<searchConfig, prices, triples, called,
                 unitVars, orchVars, analyzerVars, relayVars,
                 submitVars, lifeVars>>

\* the loop headers of the 3-hop section after an iteration's body: k++, and
\* the k loop tests i < CONFIG.dexes.length; were that false, so would be
\* the tests of the j loop and, i being unchanged, of the i loop
threeHopNext(f, rs) ==
  IF f.i < NumDexes THEN [f EXCEPT !.k = @ + 1] ELSE afterLoops(f, rs)

\* one iteration of the innermost 3-hop loop: CONFIG.dexes[k] is undefined
\* from k = CONFIG.dexes.length on and dex3.router throws; that and a
\* rejected quote are caught inside the loop, which continues
threeHopStep(q) ==
  /\ frame.pc = "threeHop"
  /\ frame.k <= MaxK
  /\ triples' = Append(triples, <<frame.i, frame.j, frame.k>>)
  /\ LET rs == IF frame.j < NumDexes /\ frame.k < NumDexes /\ q # Failed
               THEN PushIfProfit(routes, "3-hop", <<frame.i, frame.j, frame.k>>, q)
               ELSE routes
         f == threeHopNext(frame, rs)
     IN /\ routes' = rs
        /\ frame' = f
        /\ searchResult' = IF f.pc = "returned" THEN Null ELSE searchResult
  /\ UNCHANGED <<searchConfig, prices, called,
                 unitVars, orchVars, analyzerVars, relayVars,
                 submitVars, lifeVars>>

\* a verdict on the route's profit before gas
profitableOnGross(best, net, tokenPriceUSD) ==
  /\ best.profit > 0
  /\ USDAtLeastMin(net, tokenPriceUSD)
  /\ PercentAtLeastMin(best.profit)

\* profitable = netProfitInToken.gt(0) && estimatedProfitUSD >= minProfitUSD
\*              && netProfitPercent >= minProfitPercent
profitable(best, net, tokenPriceUSD) ==
  /\ net > 0
  /\ USDAtLeastMin(net, tokenPriceUSD)
  /\ PercentAtLeastMin(net)

\* from the sort to the return: the best route, the gas estimate in the
\* token, the net profit, the USD price and the verdict
finish(gas, tokenPriceUSD) ==
  /\ frame.pc = "estimate"
  /\ IF gas = Failed
     THEN /\ frame' = [frame EXCEPT !.pc = "returned", !.thrown = "gas"]
          /\ searchResult' = Null
     ELSE LET best == bestRouteOf(routes)
              net == best.profit - gas
          IN /\ frame' = [frame EXCEPT !.pc = "returned"]
             /\ searchResult' = [kind |-> "candidate", type |-> best.type,
                           dexIndices |-> best.dexIndices, profit |-> best.profit,
                           netProfitInToken |-> net, tokenPriceUSD |-> tokenPriceUSD,
                           profitable |-> profitable(best, net, tokenPriceUSD)]
  /\ UNCHANGED <<searchConfig, prices, routes, triples, called,
                 unitVars, orchVars, analyzerVars, relayVars,
                 submitVars, lifeVars>>

\* checkArbitrageOpportunities on the result: executeArbitrage(result) is
\* called for a searchResult that is profitable, whose estimatedProfitUSD is at
\* least minProfitUSD and whose profitPercent is at least minProfitPercent
actOnResult ==
  /\ frame.pc = "returned"
  /\ frame' = [frame EXCEPT !.pc = "decided"]
  /\ called' = /\ searchResult.kind = "candidate"
               /\ searchResult.profitable
               /\ USDAtLeastMin(searchResult.netProfitInToken, searchResult.tokenPriceUSD)
               /\ PercentAtLeastMin(searchResult.profit)
  /\ UNCHANGED <<searchConfig, prices, routes, triples, searchResult,
                 unitVars, orchVars, analyzerVars, relayVars,
                 submitVars, lifeVars>>

NextSearch ==
  \/ \E h \in {2, 3}, t \in BOOLEAN : searchStart(h, t)
  \/ \E ok \in BOOLEAN : priceStep(ok)
  \/ \E ok1 \in BOOLEAN, q2 \in Quotes : twoHopStep(ok1, q2)
  \/ \E q \in Quotes : threeHopStep(q)
  \/ \E g \in GasInToken, p \in TokenPricesUSD : finish(g, p)
  \/ actOnResult

(***************************************************************************)
(* FlashbotsManager.sendBundle (flashbots-manager.js).  One step is the     *)
(* code up to its next await; the then/catch callbacks of a submission's    *)
(* wait() run on their own when it settles.                                 *)
(***************************************************************************)
MaxBlocks == 3         \* largest maxBlocks a call is made with
NoBlock == 0           \* targetBlock = null
GivenBlocks == {NoBlock, 20}
BlockNumbers == {10, 11}          \* what provider.getBlockNumber() answers
WindowBlocks == 11..(20 + MaxBlocks)
\* what a submission's wait() settles to: the FlashbotsBundleResolution
\* codes 0, 1, 2, or a rejection
WaitResponses == {"0", "1", "2", "rejected"}

\* thrown: the await that sent the call to its catch
IdleBundle ==
  [pc |-> "idle", given |-> NoBlock, head |-> 0, targetBlock |-> NoBlock,
   maxBlocks |-> 0, i |-> 0, success |-> FALSE, thrown |-> ""]

InitRelay ==
  /\ bundleCall = IdleBundle
  /\ bundleSubmissions = <<>>
  /\ waits = {}
  /\ resolutions = [b \in WindowBlocks |-> "none"]

\* the for loop's test: return { success: true, ... } after maxBlocks rounds
loopOrReturn(c) ==
  IF c.i < c.maxBlocks THEN [c EXCEPT !.pc = "submit"]
  ELSE [c EXCEPT !.pc = "returned", !.success = TRUE]

\* catch (error) { return { success: false, error } }
caught(c, where) == [c EXCEPT !.pc = "returned", !.success = FALSE, !.thrown = where]

\* sendBundle(transaction, wallet, targetBlock, maxBlocks) is called on an
\* initialized manager: without a targetBlock it asks for the block number
sendBundle(targetBlock, maxBlocks) ==
  /\ bundleCall.pc = "idle"
  /\ bundleCall' = [IdleBundle EXCEPT
                      !.pc = IF targetBlock = NoBlock THEN "block" ELSE "sign",
                      !.given = targetBlock, !.targetBlock = targetBlock,
                      !.maxBlocks = maxBlocks]
  /\ UNCHANGED <<bundleSubmissions, waits, resolutions,
                 unitVars, orchVars, analyzerVars, searchVars,
                 submitVars, lifeVars>>

\* provider.getBlockNumber() settles: targetBlock = blockNumber + 1
blockNumberArrives(ok, blockNumber) ==
  /\ bundleCall.pc = "block"
  /\ bundleCall' = IF ok
                   THEN [bundleCall EXCEPT !.pc = "sign", !.head = blockNumber,
                                           !.targetBlock = blockNumber + 1]
                   ELSE caught(bundleCall, "getBlockNumber")
  /\ UNCHANGED <<bundleSubmissions, waits, resolutions,
                 unitVars, orchVars, analyzerVars, searchVars,
                 submitVars, lifeVars>>

\* flashbotsProvider.signBundle(...) settles
bundleSigned(ok) ==
  /\ bundleCall.pc = "sign"
  /\ bundleCall' = IF ok THEN loopOrReturn(bundleCall)
                   ELSE caught(bundleCall, "signBundle")
  /\ UNCHANGED <<bundleSubmissions, waits, resolutions,
                 unitVars, orchVars, analyzerVars, searchVars,
                 submitVars, lifeVars>>

\* one round of the loop: flashbotsProvider.sendBundle(signedBundle,
\* targetBlock + i) settles; when it rejects, the catch of the function
\* returns; else the submission is pushed and its wait() is left pending
bundleSubmitted(ok) ==
  /\ bundleCall.pc = "submit"
  /\ LET targetBlockNumber == bundleCall.targetBlock + bundleCall.i
     IN IF ok
        THEN /\ bundleSubmissions' = Append(bundleSubmissions, targetBlockNumber)
             /\ waits' = waits \cup {targetBlockNumber}
             /\ bundleCall' = loopOrReturn([bundleCall EXCEPT !.i = @ + 1])
        ELSE /\ bundleCall' = caught(bundleCall, "sendBundle")
             /\ UNCHANGED <<bundleSubmissions, waits>>
  /\ UNCHANGED <<resolutions, unitVars, orchVars, analyzerVars, searchVars,
                 submitVars, lifeVars>>

\* bundleSubmission.wait() of block b settles: handleBundleResolution logs
\* the response, or the catch callback logs the rejection
handleBundleResolution(b, waitResponse) ==
  /\ b \in waits
  /\ waits' = waits \ {b}
  /\ resolutions' = [resolutions EXCEPT ![b] = waitResponse]
  /\ UNCHANGED <<bundleCall, bundleSubmissions,
                 unitVars, orchVars, analyzerVars, searchVars,
                 submitVars, lifeVars>>

NextRelay ==
  \/ \E t \in GivenBlocks, n \in 1..MaxBlocks : sendBundle(t, n)
  \/ \E ok \in BOOLEAN, b \in BlockNumbers : blockNumberArrives(ok, b)
  \/ \E ok \in BOOLEAN : bundleSigned(ok)
  \/ \E ok \in BOOLEAN : bundleSubmitted(ok)
  \/ \E b \in WindowBlocks, r \in WaitResponses : handleBundleResolution(b, r)

(***************************************************************************)
(* One invocation of checkArbitrageOpportunities from its gas gate to the  *)
(* transaction executeArbitrage sends, on the orchestrator's clock and     *)
(* executionHistory.  The for loop is followed for one pair: the           *)
(* invocation ends when executeArbitrage returns.                          *)
(***************************************************************************)
IdleScan ==
  [pc |-> "idle", discoveredAt |-> 0, opp |-> [kind |-> "null", hasTokens |-> FALSE],
   passedGateAt |-> 0, timestamp |-> 0, gasPrice |-> 0]

InitSubmit ==
  /\ scan = IdleScan
  /\ requests = <<>>

\* setInterval fires: checkArbitrageOpportunities up to await provider.getGasPrice()
scanStart ==
  /\ isRunning
  /\ scan.pc = "idle"
  /\ scan' = [IdleScan EXCEPT !.pc = "gate"]
  /\ UNCHANGED <<requests, orchVars, unitVars, analyzerVars, searchVars, relayVars,
                 lifeVars>>

\* the gas price arrives: return when it is over CONFIG.maxGasPrice, else go
\* on to the pair, now = Date.now(), and await findBestArbitrageRoute
scanGasPrice(g) ==
  /\ scan.pc = "gate"
  /\ scan' = IF g > ConfigMaxGasPrice THEN IdleScan
             ELSE [scan EXCEPT !.pc = "find", !.discoveredAt = clock]
  /\ UNCHANGED <<requests, orchVars, unitVars, analyzerVars, searchVars, relayVars,
                 lifeVars>>

\* a route stamped with the time its pair's scan began
DiscoveryTimestamp(s, now) == s.discoveredAt \div 1000

\* route.timestamp: Math.floor(Date.now() / 1000) in executeArbitrage
RouteTimestamp(s, now) == now \div 1000

\* findBestArbitrageRoute resolves; for an actionable result executeArbitrage
\* runs up to await provider.getGasPrice(): the rate gate, then the route
\* and its timestamp
scanRouteFound(result) ==
  /\ scan.pc = "find"
  /\ scan' = IF result.kind = "actionable" /\ ~RateLimited(clock)
             THEN [scan EXCEPT !.pc = "gasPrice", !.opp = result,
                               !.passedGateAt = clock,
                               !.timestamp = RouteTimestamp(scan, clock)]
             ELSE IdleScan
  /\ UNCHANGED <<requests, orchVars, unitVars, analyzerVars, searchVars, relayVars,
                 lifeVars>>

\* const gasPrice = await provider.getGasPrice() resolves; logging
\* tokenA.symbol throws when the opportunity has no tokenA and the catch
\* returns false, else executeArbitrage goes on to the send
submitGasPrice(g) ==
  /\ scan.pc = "gasPrice"
  /\ scan' = IF scan.opp.hasTokens
             THEN [scan EXCEPT !.pc = "send", !.gasPrice = g]
             ELSE IdleScan
  /\ UNCHANGED <<requests, orchVars, unitVars, analyzerVars, searchVars, relayVars,
                 lifeVars>>

\* contract.executeArbitrage(tokenA, tokenB, amountIn, route, {gasPrice,
\* gasLimit}) is sent, or throws and the catch returns false
submitSend(sent) ==
  /\ scan.pc = "send"
  /\ Len(requests) < MaxAttempts
  /\ IF sent
     THEN /\ requests' = Append(requests,
                                [timestamp |-> scan.timestamp,
                                 gasPrice |-> scan.gasPrice,
                                 passedGateAt |-> scan.passedGateAt,
                                 discoveredAt |-> scan.discoveredAt])
          /\ scan' = [scan EXCEPT !.pc = "wait"]
     ELSE /\ scan' = IdleScan
          /\ UNCHANGED requests
  /\ UNCHANGED <<orchVars, unitVars, analyzerVars, searchVars, relayVars, lifeVars>>

\* tx.wait() settles: on receipt.status 1 executionHistory.push(...)
submitReceipt(status) ==
  /\ scan.pc = "wait"
  /\ IF status = "1"
     THEN executionHistory' = Append(executionHistory,
                                     [timestamp |-> clock, txHash |-> Len(requests)])
     ELSE UNCHANGED executionHistory
  /\ scan' = IdleScan
  /\ UNCHANGED <<requests, clock, nTicks, watchedPairs, cycles, attempts, isRunning,
                 useFlashbots, unitVars, analyzerVars, searchVars, relayVars, lifeVars>>

NextSubmit ==
  \/ \E f \in BOOLEAN : startBot(f)
  \/ \E d \in TickChoices : Tick(d)
  \/ scanStart
  \/ \E g \in GasPrices : scanGasPrice(g)
  \/ \E r \in FindResults : scanRouteFound(r)
  \/ \E g \in GasPrices : submitGasPrice(g)
  \/ \E sent \in BOOLEAN : submitSend(sent)
  \/ \E st \in {"0", "1"} : submitReceipt(st)

(***************************************************************************)
(* The process: the main call of startBot, the uncaughtException handler   *)
(* and the restarts it schedules.                                          *)
(***************************************************************************)
MaxFaults == 3         \* uncaught exceptions per behaviour

InitLife ==
  /\ scanTasks = 0
  /\ pairsPushed = <<>>
  /\ startsDue = 1
  /\ faults = 0

\* the pairs of `exists`, in the order initWatchedPairs loops over them
RECURSIVE PairsInOrder(_, _)
PairsInOrder(order, exists) ==
  IF order = <<>> THEN <<>>
  ELSE (IF Head(order) \in exists THEN <<Head(order)>> ELSE <<>>)
         \o PairsInOrder(Tail(order), exists)

PairOrder == <<"WETH/TKB", "WETH/TKC">>

\* initWatchedPairs: watchedPairs.push for every pair some factory knows
initWatchedPairs(exists) == pairsPushed \o PairsInOrder(PairOrder, exists)

\* schedulePeriodicTasks: setInterval(checkArbitrageOpportunities, ...)
schedulePeriodicTasks(n) == n + 1

\* a call of startBot, from the main execution or from a restart timer:
\* initializeBot, which fails before the token list is loaded or runs
\* initWatchedPairs; then isRunning = true and schedulePeriodicTasks()
startBotCall(initialized, exists) ==
  /\ startsDue > 0
  /\ startsDue' = startsDue - 1
  /\ IF initialized
     THEN /\ pairsPushed' = initWatchedPairs(exists)
          /\ isRunning' = TRUE
          /\ scanTasks' = schedulePeriodicTasks(scanTasks)
     ELSE UNCHANGED <<pairsPushed, isRunning, scanTasks>>
  /\ UNCHANGED <<faults, clock, nTicks, executionHistory, watchedPairs, cycles,
                 attempts, useFlashbots,
                 unitVars, analyzerVars, searchVars, relayVars, submitVars>>

\* process.on('uncaughtException'): stopBot() sets isRunning = false and
\* clears no timer; setTimeout(() => startBot(), 60000)
uncaughtException ==
  /\ faults < MaxFaults
  /\ faults' = faults + 1
  /\ isRunning' = FALSE
  /\ startsDue' = startsDue + 1
  /\ UNCHANGED <<scanTasks, pairsPushed, clock, nTicks, executionHistory,
                 watchedPairs, cycles, attempts, useFlashbots,
                 unitVars, analyzerVars, searchVars, relayVars, submitVars>>

NextLife ==
  \/ \E ok \in BOOLEAN, exists \in SUBSET WatchedPairIds : startBotCall(ok, exists)
  \/ uncaughtException

Init ==
  /\ InitUnit /\ InitOrch /\ InitAnalyzer /\ InitSearch /\ InitRelay
  /\ InitSubmit /\ InitLife
Next == NextUnit
Spec == Init /\ [][Next]_vars
SpecOrch == Init /\ [][NextOrch]_vars
SpecRisk == Init /\ [][NextRisk]_vars
SpecRiskPair == Init /\ [][NextRiskPair]_vars
SpecSearch == Init /\ [][NextSearch]_vars
SpecRelay == Init /\ [][NextRelay]_vars
SpecHistory == Init /\ [][NextHistory]_vars
SpecSubmit == Init /\ [][NextSubmit]_vars
SpecLife == Init /\ [][NextLife]_vars

(***************************************************************************)
(* Properties of the unit, stated on lastTx: the latest execution          *)
(* transaction, with what it ran through (tr) whether or not it committed. *)
(***************************************************************************)
ExecutionTriggers == {"executeArbitrage", "executeArbitrageWithNative"}

\* the transaction moved funds: it borrowed, wrapped, or called a venue's swap
TouchedFunds(tx) == tx.tr.borrowed \/ tx.tr.wrapped \/ tx.tr.hops # <<>>

\* some hop failed after an earlier hop had succeeded
FailedAfterSuccess(tx) ==
  \E i, j \in DOMAIN tx.tr.hops : i < j /\ tx.tr.hops[i].ok /\ ~tx.tr.hops[j].ok

\* C1: no partial success.  A call to executeArbitrage or
\* executeArbitrageWithNative in which a hop fails after an earlier hop
\* succeeded never commits (so the unit never keeps the earlier hops'
\* intermediate tokens), a stray balance of the start asset included.
C1_NoPartialSuccess ==
  (lastTx.kind \in ExecutionTriggers /\ FailedAfterSuccess(lastTx))
    => lastTx.status = "reverted"

\* C2: profit floor.  Every committed ArbitrageExecuted event, from either
\* trigger or the loan callback, reports profit >= amountIn * minProfitPercent
\* / 100000.
C2_ProfitFloor ==
  \A k \in DOMAIN lastTx.events :
    lastTx.events[k].name = "ArbitrageExecuted"
      => lastTx.events[k].profit >= (lastTx.events[k].amountIn * lastTx.mpp) \div 100000

\* C3: freshness rejection.  For both triggers, a call whose route timestamp
\* is more than 300 s behind the block time reverts, and it reaches no
\* borrow, no wrap and no swap.
C3_FreshnessRejection ==
  (lastTx.kind \in ExecutionTriggers /\ lastTx.age > FiveMinutes)
    => (lastTx.status = "reverted" /\ ~TouchedFunds(lastTx))

\* C3's case: the owner's executeArbitrageWithNative with a 301 s old route,
\* every other precondition met, rejected by the freshness check
C3_Witness ==
  /\ lastTx.kind = "executeArbitrageWithNative"
  /\ lastTx.caller = Owner
  /\ lastTx.age = 301
  /\ lastTx.status = "reverted"
  /\ lastTx.reason = "Route expired"

\* the owner's call met every precondition of executeArbitrage other than
\* the route's age
OtherChecksPass(tx) ==
  /\ tx.caller = Owner
  /\ ~tx.pausedAtCall
  /\ tx.tokenA # tx.tokenB
  /\ activePairs[tx.tokenA, tx.tokenB]
  /\ tx.gasprice <= maxGasPrice

\* C4: the owner's executeArbitrage with a route older than 300 s (400 s),
\* all else in order, reverts with the reason "Route expired" before any swap.
C4_RouteExpiredReason ==
  (lastTx.kind = "executeArbitrage" /\ lastTx.age = 400 /\ OtherChecksPass(lastTx))
    => (lastTx.status = "reverted" /\ lastTx.reason = "Route expired"
        /\ lastTx.tr.hops = <<>>)

\* C5: slippage floor.  In every committed execution every hop that swapped
\* put at least quoted * (10000 - 50) / 10000 of the next token on the
\* unit's balance, whatever the venue delivers against its return value.
C5_SlippageFloor ==
  lastTx.status = "committed"
    => \A i \in DOMAIN lastTx.tr.hops :
         lastTx.tr.hops[i].ok
           => lastTx.tr.hops[i].delivered >= MinAmountOut(lastTx.tr.hops[i].quoted)

\* C8: every execution attempt on the unit, one that passed the
\* preconditions and borrowed or wrapped, commits exactly one terminal
\* event: ArbitrageExecuted or ArbitrageFailed.
C8_OneTerminalEvent ==
  (lastTx.kind \in ExecutionTriggers /\ (lastTx.tr.borrowed \/ lastTx.tr.wrapped))
    => /\ Len(lastTx.events) = 1
       /\ lastTx.events[1].name \in {"ArbitrageExecuted", "ArbitrageFailed"}

\* C10: pause.  A call to either trigger made while the unit is paused
\* reverts before any borrow, wrap or swap; the flag the call sees is the one
\* the owner's latest togglePause left.
C10_PausedRejects ==
  (lastTx.kind \in ExecutionTriggers /\ lastTx.pausedAtCall)
    => (lastTx.status = "reverted" /\ ~TouchedFunds(lastTx))

\* C10's case: the owner paused the unit, and the owner's next call, fresh
\* and otherwise in order, is rejected by the pause check
C10_Witness ==
  /\ paused
  /\ lastTx.kind \in ExecutionTriggers
  /\ lastTx.caller = Owner
  /\ lastTx.pausedAtCall
  /\ lastTx.status = "reverted"
  /\ lastTx.reason = "Contract is paused"

C11_InactivePairUntradeable ==
  (lastTx.kind \in ExecutionTriggers /\ lastTx.status = "committed")
    => \A i \in DOMAIN lastTx.tr.hops :
         lastTx.tr.hops[i].ok
           => activePairs[lastTx.tr.hops[i].from, lastTx.tr.hops[i].to]

\* C12: the pair policy is symmetric in every reachable state:
\* activePairs[a][b] = activePairs[b][a] for all tokens a and b, whatever
\* setActivePair calls and executions came before.
C12_PairPolicySymmetric ==
  \A a \in Tokens, b \in Tokens : activePairs[a, b] = activePairs[b, a]

\* C12's case: a pair of two different tokens is active and an execution
\* transaction has run since
C12_Witness ==
  /\ activePairs["WETH", "TKB"]
  /\ activePairs["TKB", "WETH"]
  /\ lastTx.kind \in ExecutionTriggers
  /\ lastTx.status = "committed"

\* C13: venues are never deleted.  No step shrinks the venue list, and the
\* router, factory and name stored at an index never change once registered;
\* only the active flag of a registered venue changes.
C13_VenuesNeverDeleted ==
  [][ /\ Len(dexRouters') >= Len(dexRouters)
      /\ \A i \in DOMAIN dexRouters :
           /\ dexRouters'[i].router = dexRouters[i].router
           /\ dexRouters'[i].factory = dexRouters[i].factory
           /\ dexRouters'[i].name = dexRouters[i].name ]_vars

\* C13's case: two venues are registered, the owner has deactivated the
\* first, and an execution transaction has run
C13_Witness ==
  /\ Len(dexRouters) = 2
  /\ ~dexRouters[1].active
  /\ dexRouters[1].name = "UniswapV2"
  /\ dexRouters[2].name = "SushiSwap"
  /\ lastTx.kind \in ExecutionTriggers

\* C14: the registry is unaffected by execution.  No execution transaction
\* (executeArbitrage, executeArbitrageWithNative, or a loan callback),
\* committed or reverted, changes the venue list, the venues' active flags,
\* activePairs, minProfitPercent, maxGasPrice, minReserveRatio or the pause
\* flag.
C14_RegistryUnaffected ==
  [][ nTx' # nTx => registryVars' = registryVars ]_vars

\* C14's case: with venues registered and a pair active, an execution has
\* committed after swapping
C14_Witness ==
  /\ Len(dexRouters) > 0
  /\ activePairs["WETH", "TKB"]
  /\ lastTx.kind \in ExecutionTriggers
  /\ lastTx.status = "committed"
  /\ \E i \in DOMAIN lastTx.tr.hops : lastTx.tr.hops[i].ok

\* a hop of the transaction during which a call into the unit got past the
\* unit's guards
NestedEntered(tx) ==
  \E i \in DOMAIN tx.tr.hops : tx.tr.hops[i].nested = "entered"

RoundTripInput(tx) ==
  /\ tx.kind = "executeArbitrage"
  /\ tx.caller = Owner
  /\ ~tx.pausedAtCall
  /\ tx.age >= 0 /\ tx.age < TwoMinutes
  /\ tx.gasprice <= maxGasPrice
  /\ tx.tokenA # tx.tokenB
  /\ tx.route.path = <<tx.tokenA, tx.tokenB, tx.tokenA>>
  /\ Len(tx.route.dexIndices) = 2
  /\ \A i \in 1..2 : /\ tx.route.dexIndices[i] < Len(dexRouters)
                     /\ dexRouters[tx.route.dexIndices[i] + 1].active
  /\ activePairs[tx.tokenA, tx.tokenB]
  /\ tx.plainProfit

\* C16: round trip.  The owner's executeArbitrage(A, B, amountIn, route) with
\* a fresh, profitable 2-hop loop route [A, B, A] on an activated pair ends
\* committed with ArbitrageExecuted emitted.
C16_RoundTripSucceeds ==
  RoundTripInput(lastTx)
    => /\ lastTx.status = "committed"
       /\ \E k \in DOMAIN lastTx.events : lastTx.events[k].name = "ArbitrageExecuted"


\* the route's path ends on the token it starts from
IsLoopPath(path) == Len(path) >= 2 /\ path[Len(path)] = path[1]

\* a swap back to the starting asset went through after the hops
SwappedBack(tx) ==
  \E i \in DOMAIN tx.tr.hops : tx.tr.hops[i].kind = "back" /\ tx.tr.hops[i].ok

\* C17: loop-route check.  When the path's last token equals its first, the
\* unit performs no swap-back after the hops; a swap back to the borrowed
\* asset happens only for a path that is not a loop.
C17_NoSwapBackOnLoop ==
  (lastTx.kind \in ExecutionTriggers /\ lastTx.status = "committed"
     /\ IsLoopPath(lastTx.route.path))
    => ~SwappedBack(lastTx)


(***************************************************************************)
(* Properties of the risk module, stated on what the latest call returned. *)
(* The statistics are computed here from the stored samples by index, the  *)
(* variance as mean of squares minus square of the mean.                   *)
(***************************************************************************)
\* the positions of the most recent min(10, n) of n samples
RecentPositions(n) == { i \in 1..n : i > n - 10 }

RECURSIVE SumOver(_, _, _)
SumOver(h, positions, power) ==
  IF positions = {} THEN 0
  ELSE LET i == CHOOSE j \in positions : TRUE
       IN (IF power = 2 THEN h[i] * h[i] ELSE h[i])
            + SumOver(h, positions \ {i}, power)

\* mean error of the window > num/10
MeanAbove(h, num) ==
  LET w == RecentPositions(Len(h))
  IN 10 * SumOver(h, w, 1) > num * ErrorScale * Cardinality(w)

\* n^2 * ErrorScale^2 * variance of the window
ScaledVariance(h) ==
  LET w == RecentPositions(Len(h))
  IN Cardinality(w) * SumOver(h, w, 2) - SumOver(h, w, 1) * SumOver(h, w, 1)

\* standard deviation of the window > 0.2, that is variance > 4/100
StdDevAboveVolatility(h) ==
  LET n == Cardinality(RecentPositions(Len(h)))
  IN 100 * ScaledVariance(h) > 4 * n * n * ErrorScale * ErrorScale

ExpectedLevel(h) ==
  IF Len(h) < 5 THEN "unknown"
  ELSE IF MeanAbove(h, 3) THEN "high"
  ELSE IF MeanAbove(h, 1) THEN "medium"
  ELSE IF StdDevAboveVolatility(h) THEN "medium"
  ELSE "low"

Assessed(a) == lastCall[a].op \in {"assessRisk", "recommendStrategy"}

\* C18: risk classification.  assessRisk returns 'unknown' iff fewer than 5
\* samples are stored; otherwise, over the most recent min(10, n) samples,
\* 'high' if the mean error > 0.3, else 'medium' if it is > 0.1, else
\* 'medium' if the standard deviation > 0.2, else 'low'.
C18_RiskClassification ==
  lastCall["main"].op = "assessRisk"
    => /\ lastCall["main"].risk.level = ExpectedLevel(historicalData["main"])
       /\ (lastCall["main"].risk.level = "unknown"
             <=> Len(historicalData["main"]) < 5)

\* eleven samples stored, the oldest one large: the ten recent ones are low
\* risk, all eleven together would not be
C18_Witness ==
  /\ lastCall["main"].op = "assessRisk"
  /\ Len(historicalData["main"]) = 11
  /\ historicalData["main"][1] = 9
  /\ lastCall["main"].risk.level = "low"
  /\ \E i \in 2..11 : historicalData["main"][i] = 9

Rank(level) == CASE level = "low" -> 1 [] level = "medium" -> 2 [] level = "high" -> 3
                 [] OTHER -> 0

\* the windows of a and b have the same standard deviation
SameStdDev(a, b) ==
  LET na == Cardinality(RecentPositions(Len(historicalData[a])))
      nb == Cardinality(RecentPositions(Len(historicalData[b])))
  IN ScaledVariance(historicalData[a]) * nb * nb
       = ScaledVariance(historicalData[b]) * na * na

\* the window of a has a larger mean error than the window of b
LargerMean(a, b) ==
  LET wa == RecentPositions(Len(historicalData[a]))
      wb == RecentPositions(Len(historicalData[b]))
  IN SumOver(historicalData[a], wa, 1) * Cardinality(wb)
       > SumOver(historicalData[b], wb, 1) * Cardinality(wa)

Classified(a) == Assessed(a) /\ lastCall[a].risk.level # "unknown"

\* C19: risk classification monotonicity.  Of two sample windows with the
\* same standard deviation, the one with the larger mean error never gets
\* the lower risk level (low < medium < high).
C19_RiskMonotone ==
  \A a \in Analyzers, b \in Analyzers :
    (Classified(a) /\ Classified(b) /\ SameStdDev(a, b) /\ LargerMean(a, b))
      => Rank(lastCall[a].risk.level) >= Rank(lastCall[b].risk.level)

\* two classified windows of equal, non-zero deviation whose levels differ
C19_Witness ==
  /\ Classified("main") /\ Classified("other")
  /\ SameStdDev("main", "other") /\ LargerMean("main", "other")
  /\ ScaledVariance(historicalData["main"]) > 0
  /\ lastCall["main"].risk.level = "high"
  /\ lastCall["other"].risk.level = "medium"

Recommended(a) == lastCall[a].op = "recommendStrategy"

\* C20: the strategy recommendation is monotone in the risk level.  The
\* higher of two levels gets a slippage that is not larger and a minimum
\* profit that is not smaller; MEV protection is on for medium and high and
\* equals config.useFlashbots for low.
C20_StrategyMonotone ==
  /\ \A a \in Analyzers, b \in Analyzers :
       (Recommended(a) /\ Recommended(b) /\ Rank(lastCall[b].risk.level) > 0
          /\ Rank(lastCall[a].risk.level) > Rank(lastCall[b].risk.level))
         => /\ lastCall[a].strategy.recommendedSlippage
                 <= lastCall[b].strategy.recommendedSlippage
            /\ lastCall[a].strategy.recommendedMinProfit
                 >= lastCall[b].strategy.recommendedMinProfit
  /\ \A a \in Analyzers :
       Recommended(a)
         => /\ lastCall[a].risk.level \in {"medium", "high"}
                 => lastCall[a].strategy.useMEVProtection
            /\ lastCall[a].risk.level = "low"
                 => lastCall[a].strategy.useMEVProtection = config.useFlashbots

\* a high-risk and a low-risk recommendation under a config without
\* Flashbots
C20_Witness ==
  /\ Recommended("main") /\ Recommended("other")
  /\ lastCall["main"].risk.level = "high"
  /\ lastCall["other"].risk.level = "low"
  /\ ~config.useFlashbots
  /\ lastCall["main"].strategy.useMEVProtection
  /\ ~lastCall["other"].strategy.useMEVProtection


C22_ActionableSubmitted ==
  [][\A c \in CycleIds :
       (cycles[c].pc = "send" /\ ~cycles[c].opp.hasTokens /\ cycles'[c] # cycles[c])
         => /\ Len(attempts') = Len(attempts) + 1
            /\ attempts'[Len(attempts')].pair = cycles[c].pair]_vars


(***************************************************************************)
(* Properties of the route search.                                         *)
(***************************************************************************)
SearchReturned == frame.pc \in {"returned", "decided"}

VenueTriples == (0..(NumDexes - 1)) \X (0..(NumDexes - 1)) \X (0..(NumDexes - 1))

\* C23: the route search terminates.  With maxHops >= 3 and a third token in
\* the token list, the 3-hop enumeration runs its body on venue triples
\* (i, j, k) with i, j, k < CONFIG.dexes.length only, on none of them twice,
\* and when the search has returned it has run on every one of them.
C23_ThreeHopEnumeration ==
  /\ \A n \in DOMAIN triples : triples[n] \in VenueTriples
  /\ \A n, m \in DOMAIN triples : n # m => triples[n] # triples[m]
  /\ (SearchReturned /\ EntersThreeHop /\ Len(prices) >= 2 /\ frame.thrown # "quote")
       => { triples[n] : n \in DOMAIN triples } = VenueTriples

\* the ordered venue pairs the 2-hop loops had not reached when the search
\* stood at (i, j)
RemainingPairs ==
  { p \in (0..(Len(prices) - 1)) \X (0..(Len(prices) - 1)) :
      /\ p[1] # p[2]
      /\ (p[1] > frame.i \/ (p[1] = frame.i /\ p[2] > frame.j)) }

\* C28: a quote failure is a local skip.  When a quote rejects while a pair
\* is priced, findBestArbitrageRoute does not return before the remaining
\* ordered venue pairs were evaluated, and what it returns is not null while
\* routes were found.
C28_QuoteFailureLocal ==
  (SearchReturned /\ frame.thrown = "quote")
    => /\ RemainingPairs = {}
       /\ (routes # <<>> => searchResult.kind = "candidate")

\* C29: a candidate is executed only if it clears both minimums at once.
\* executeArbitrage is called only for a candidate whose net profit after
\* gas is positive, whose estimated USD profit (net profit in tokens times
\* the token's USD price) is at least minProfitUSD, and whose net profit
\* percentage is at least minProfitPercent.
C29_ExecutedClearsMinimums ==
  called =>
    /\ searchResult.kind = "candidate"
    /\ searchResult.netProfitInToken > 0
    /\ searchResult.netProfitInToken * searchResult.tokenPriceUSD
         >= ConfigMinProfitUSD * OneToken
    /\ searchResult.netProfitInToken * 100 * ConfigMinProfitPercent.den
         >= ConfigMinProfitPercent.num * OneToken

\* executeArbitrage was called for a candidate whose gas estimate is not zero
C29_Witness ==
  /\ called
  /\ searchResult.netProfitInToken < searchResult.profit


\* C24: a negative simulation aborts before swapping.  In a transaction in
\* which simulateArbitrage returned false, the unit made no swap call to a
\* venue and approved no token to one, and the transaction reverted with the
\* simulation's reason.
C24_SimulationNegativeAborts ==
  lastTx.tr.sim = "false"
    => /\ lastTx.tr.hops = <<>>
       /\ lastTx.status = "reverted"
       /\ lastTx.reason = "Simulation shows no profit"

\* the lender's callback ran the simulation on the loan and it returned false
C24_Witness ==
  /\ lastTx.tr.sim = "false"
  /\ lastTx.tr.callbackRan
  /\ lastTx.tr.borrowed


\* every hop of the transaction went through and put on the unit exactly
\* the amount the venue had quoted for it
DeliveredAsQuoted(tx) ==
  /\ tx.tr.hops # <<>>
  /\ \A i \in DOMAIN tx.tr.hops :
       tx.tr.hops[i].ok /\ tx.tr.hops[i].delivered = tx.tr.hops[i].quoted

\* C25: simulator soundness.  When simulateArbitrage returned true and every
\* venue then delivered exactly what it quoted, the callback's checks
\* finalBalance >= amount + premium and profit >= minimum profit both pass,
\* on a loop route as on any other.
C25_SimulatorSound ==
  (lastTx.tr.sim = "true" /\ DeliveredAsQuoted(lastTx))
    => lastTx.reason \notin {"Insufficient funds to repay", "Profit below threshold"}


\* the ArbitrageExecuted events the lender's callback emitted in the
\* transaction, whether or not the transaction then committed
CallbackSucceeded(tx) ==
  { k \in DOMAIN tx.emitted :
      tx.tr.callbackRan /\ tx.emitted[k].name = "ArbitrageExecuted" }

\* C26: repayment and distribution.  When executeOperation ends on its
\* success branch, the allowance it has granted the lender is exactly
\* amount + premium, the owner has received exactly finalBalance -
\* (amount + premium), and the unit is left holding exactly amount + premium
\* of the asset.
C26_RepaymentAndDistribution ==
  \A k \in CallbackSucceeded(lastTx) :
    LET e == lastTx.emitted[k]
        totalDebt == e.amountIn + (e.amountIn * PremiumBps) \div 10000
    IN /\ lastTx.tr.granted = totalDebt
       /\ lastTx.tr.toOwner = e.amountOut - totalDebt
       /\ lastTx.tr.held = totalDebt

\* the callback succeeded on a unit that held a stray balance of the asset
\* before the loan, and the transaction committed
C26_Witness ==
  /\ CallbackSucceeded(lastTx) # {}
  /\ lastTx.status = "committed"
  /\ lastTx.balBefore[lastTx.tokenA] > 0
  /\ lastTx.ownerGot > 0


\* the cycle is pricing a pair (awaiting findBestArbitrageRoute) or
\* executing on it (inside executeArbitrage)
InFlight(c) == cycles[c].pc \in {"find", "send", "wait"}

\* C27: at most one scan pass per watched pair is in flight.  No two scan
\* cycles are pricing or executing the same pair at the same time.
C27_OnePassPerPair ==
  \A c1, c2 \in CycleIds :
    (c1 # c2 /\ InFlight(c1) /\ InFlight(c2)) => cycles[c1].pair # cycles[c2].pair


(***************************************************************************)
(* Properties of the bundle submission.                                    *)
(***************************************************************************)
\* the first block of the window: the targetBlock given, or the block after
\* the current one
FirstTarget ==
  IF bundleCall.given # NoBlock THEN bundleCall.given ELSE bundleCall.head + 1

\* C30: bundle submission window.  sendBundle(tx, wallet, T, N) submits the
\* signed bundle once for each target block T, T+1, ..., T+N-1 in turn (T
\* the block after the current one when none is given) and for no other
\* block; once the bundle is signed the call does not return before all N
\* are submitted; and the outcome of every submission is handled on its own:
\* only submitted blocks get a resolution.
C30_SubmissionWindow ==
  /\ Len(bundleSubmissions) <= bundleCall.maxBlocks
  /\ \A n \in DOMAIN bundleSubmissions : bundleSubmissions[n] = FirstTarget + n - 1
  /\ (bundleCall.pc = "returned" /\ bundleCall.thrown \notin {"getBlockNumber", "signBundle"})
       => Len(bundleSubmissions) = bundleCall.maxBlocks
  /\ \A b \in WindowBlocks :
       (b \in waits \/ resolutions[b] # "none")
         => \E n \in DOMAIN bundleSubmissions : bundleSubmissions[n] = b


\* C33: the preconditions cannot be bypassed.  Every transaction in which
\* the lender's callback got as far as its simulation is a call of
\* executeArbitrage, whose checks come first: made while the unit was not
\* paused, with a route younger than two minutes.
C33_PreconditionsNotBypassed ==
  lastTx.tr.sim # "none"
    => /\ lastTx.kind = "executeArbitrage"
       /\ ~lastTx.pausedAtCall
       /\ lastTx.age < TwoMinutes

\* C34: the reported profit is the trade's own gain.  For every
\* ArbitrageExecuted the callback emits, profit = (asset balance after the
\* swaps) - (asset balance at callback entry) - premium, the balance at
\* entry being what the unit held before the loan plus the loan.
C34_ProfitIsOwnGain ==
  \A k \in CallbackSucceeded(lastTx) :
    LET e == lastTx.emitted[k]
        atEntry == lastTx.balBefore[e.tokenA] + e.amountIn
    IN e.profit = e.amountOut - atEntry - (e.amountIn * PremiumBps) \div 10000

\* the hops the for loop of executeSwaps made, without the swap back
LoopHops(tx) == SelectSeq(tx.tr.hops, LAMBDA h : h.kind = "hop")

\* C35: the route matches the trade.  In every execution that reached the
\* swap stage, route.path[0] is the borrowed or wrapped asset tokenA, hop i
\* swaps from path[i] to path[i+1], and tokenB occurs in the path.
C35_RouteMatchesTrade ==
  lastTx.tr.hops # <<>>
    => /\ lastTx.route.path[1] = lastTx.tokenA
       /\ \A i \in DOMAIN LoopHops(lastTx) :
            /\ LoopHops(lastTx)[i].from = lastTx.route.path[i]
            /\ LoopHops(lastTx)[i].to = lastTx.route.path[i + 1]
       /\ \E i \in DOMAIN lastTx.route.path : lastTx.route.path[i] = lastTx.tokenB

\* C36: the two triggers accept the same route timestamps.  For the block
\* time and every route timestamp, older, equal or in the future, the
\* freshness checks of executeArbitrage (younger than two minutes, not
\* expired) pass iff the freshness check of executeArbitrageWithNative
\* (not expired) passes.
C36_SameFreshness ==
  \A age \in RouteAges :
    LET timestamp == blockTimestamp - age
    IN (RouteYoung(timestamp) = "ok" /\ RouteNotExpired(timestamp))
         <=> RouteNotExpired(timestamp)

\* C39: sendBundle reports failure only when nothing was submitted.  When
\* the call has returned success = false, no bundle of the call has been
\* sent to the relay for any target block.
C39_FailureMeansNothingSent ==
  (bundleCall.pc = "returned" /\ ~bundleCall.success) => bundleSubmissions = <<>>


C31_TimestampAtSubmission ==
  \A i \in DOMAIN requests :
    requests[i].timestamp = requests[i].passedGateAt \div 1000

\* a request was sent for a route found well after its pair's scan began
C31_Witness ==
  \E i \in DOMAIN requests :
    /\ requests[i].passedGateAt > requests[i].discoveredAt
    /\ requests[i].timestamp > requests[i].discoveredAt \div 1000

C37_SingleScheduler ==
  /\ scanTasks <= 1
  /\ \A i, j \in DOMAIN pairsPushed : pairsPushed[i] = pairsPushed[j] => i = j

====
